---------------------------- MODULE Spec2Model ----------------------------
(***************************************************************************)
(* Model of the Kenya map visualisation: the loading pipeline of           *)
(* src/scripts.js and of src/unnamed/part_000 (county resolution, the      *)
(* rejection sampler, record placement) and their year extraction.        *)
(*                                                                         *)
(* Text is a tuple of one-character strings, so that toLowerCase,          *)
(* includes and the year pattern are computed character by character.     *)
(* A geographic point is a pair <<x, y>> on an integer grid; Math.random   *)
(* is a nondeterministic choice of a grid point of the bounding box.       *)
(***************************************************************************)
EXTENDS Integers, Sequences, FiniteSets, TLC

VARIABLES
    variant,                \* which page script runs: "scripts" or "part_000"
    pc,                     \* position of loadData (or of the function under test)
    caller,                 \* call site the sampler returns to
    countiesGeoJSON,        \* features of the boundary dataset
    allMissingPersonsData,  \* the record list (module-level variable of both scripts)
    dataset,                \* the record dataset as d3.json delivered it
    keyIdx,                 \* index of the forEach over Object.keys(victimsByCounty) / over the records
    victimIdx,              \* index of the inner forEach of the fallback branch
    victimsWithPositions,   \* scripts.js:911
    countyFeature,          \* argument of the running sampler call
    numPoints,              \* argument of the running sampler call
    points,                 \* scripts.js:82
    attempts,               \* scripts.js:89; for part_000 the number of do-while iterations
    result,                 \* value returned by the function under test
    circles,                \* the records bound to circle.person by showPeople
    dateString,             \* argument of the year extraction under test
    yearResult,             \* its return value
    threw,                  \* TRUE when the function under test threw a TypeError
    viewport,               \* what the browser measures now: window.innerWidth, the container's size
    mapSize,                \* << mapwidth, mapHeight >>
    projection,             \* the projection (geoPath is built from it)
    currentYear,            \* scripts.js:28
    currentCounty,          \* scripts.js:75
    isZoomedToCounty,       \* scripts.js:76
    k,                      \* part_000:28, in tenths
    currentZoomedCounty,    \* part_000:31
    mapTransform,           \* the transform attribute of the map group
    pathsDrawn,             \* the projection the county paths and the border mesh are drawn with
    transition,             \* the transition in flight, by its target
    timers,                 \* the pending setTimeout callbacks
    loading,                \* part_000: the loading indicator
    controls,               \* TRUE once the filter controls exist
    shown,                  \* the year and the county the circles were last joined for
    styles,                 \* the r of the circles and the stroke-width of the border mesh
    statistics              \* the texts of the total and the visible case counts

vars == << variant, pc, caller, countiesGeoJSON, allMissingPersonsData, dataset, keyIdx,
           victimIdx, victimsWithPositions, countyFeature, numPoints, points,
           attempts, result, circles, dateString, yearResult, threw,
           viewport, mapSize, projection, currentYear, currentCounty,
           isZoomedToCounty, k, currentZoomedCounty, mapTransform, pathsDrawn,
           transition, timers, loading, controls, shown, styles, statistics >>

\* the state of the page around the loading pipeline
viewVars == << viewport, mapSize, projection, currentYear, currentCounty,
               isZoomedToCounty, k, currentZoomedCounty, mapTransform,
               pathsDrawn, transition, timers, loading, controls, shown, styles,
               statistics >>

\* the locals of the loading pipeline and of the functions under test
callVars == << caller, keyIdx, victimIdx, victimsWithPositions, countyFeature,
               numPoints, points, attempts, result, dateString, yearResult,
               threw >>

-----------------------------------------------------------------------------
(* Bounds of the model *)

MaxRecords == 2     \* longest record dataset
MaxCount == 3       \* largest count passed to the sampler under test
MaxDraws == 101     \* the iteration count of part_000's sampler is tracked up to here
MaxTimers == 1      \* most delayed updates of zoomOut that are pending at once

-----------------------------------------------------------------------------
(* Text *)

\* null / undefined for a text field; never passed to a string method
Null == << "null" >>

\* undefined for a point or a feature
Undefined == << >>

UpperCase == <<"A","B","C","D","E","F","G","H","I","J","K","L","M","N","O","P","Q","R","S","T","U","V","W","X","Y","Z">>

LowerCase == <<"a","b","c","d","e","f","g","h","i","j","k","l","m","n","o","p","q","r","s","t","u","v","w","x","y","z">>

Digits == <<"0","1","2","3","4","5","6","7","8","9">>

toLowerChar(c) ==
    IF \E i \in 1..Len(UpperCase) : UpperCase[i] = c
    THEN LowerCase[CHOOSE i \in 1..Len(UpperCase) : UpperCase[i] = c]
    ELSE c

toUpperChar(c) ==
    IF \E i \in 1..Len(LowerCase) : LowerCase[i] = c
    THEN UpperCase[CHOOSE i \in 1..Len(LowerCase) : LowerCase[i] = c]
    ELSE c

\* String.prototype.toLowerCase
toLowerCase(s) == [i \in 1..Len(s) |-> toLowerChar(s[i])]

\* String.prototype.includes
includes(s, sub) ==
    \E i \in 0..(Len(s) - Len(sub)) :
        \A j \in 1..Len(sub) : s[i + j] = sub[j]

\* county.charAt(0).toUpperCase() + county.slice(1)
capitalize(s) ==
    IF Len(s) = 0 THEN s
    ELSE << toUpperChar(s[1]) >> \o SubSeq(s, 2, Len(s))

\* JavaScript truthiness of a text field
Truthy(s) == s # Null /\ s # << >>

-----------------------------------------------------------------------------
(* Geography *)

\* A feature: its name, the vertices of its outline, and the grid points
\* that lie inside its polygon.
Nairobi == [ shapeName |-> <<"N","a","i","r","o","b","i">>,
             ring |-> { <<0, 0>>, <<1, 1>> },
             cells |-> { <<0, 0>>, <<1, 1>> } ]

Mombasa == [ shapeName |-> <<"M","o","m","b","a","s","a">>,
             ring |-> { <<2, 0>>, <<2, 1>> },
             cells |-> { <<2, 0>>, <<2, 1>> } ]

\* a sliver: no grid point of its bounding box lies inside it
Lamu == [ shapeName |-> <<"L","a","m","u">>,
          ring |-> { <<3, 0>>, <<4, 1>> },
          cells |-> { } ]

SetMin(S) == CHOOSE m \in S : \A e \in S : m <= e

SetMax(S) == CHOOSE m \in S : \A e \in S : m >= e

\* d3.geoBounds: [[minX, minY], [maxX, maxY]]
geoBounds(feature) ==
    << << SetMin({ p[1] : p \in feature.ring }), SetMin({ p[2] : p \in feature.ring }) >>,
       << SetMax({ p[1] : p \in feature.ring }), SetMax({ p[2] : p \in feature.ring }) >> >>

\* d3.geoContains
geoContains(feature, point) == point \in feature.cells

\* minX + Math.random() * (maxX - minX), minY + Math.random() * (maxY - minY)
randomCandidates(feature) ==
    LET bounds == geoBounds(feature)
        minX == bounds[1][1]
        minY == bounds[1][2]
        maxX == bounds[2][1]
        maxY == bounds[2][2]
    IN  { << x, y >> : x \in minX..maxX, y \in minY..maxY }

-----------------------------------------------------------------------------
(* The rejection sampler of scripts.js *)

AttemptFactor == 100

maxAttempts(n) == n * AttemptFactor

\* a loop that allows one draw beyond the cap
whileConditionInclusive(pts, att, n) == Len(pts) < n /\ att <= maxAttempts(n)

\* while (points.length < numPoints && attempts < maxAttempts)
whileCondition(pts, att, n) == Len(pts) < n /\ att < maxAttempts(n)

\* a sampler that keeps every candidate of the bounding box
pushAlways(feature, pts, point) == Append(pts, point)

\* if (d3.geoContains(countyFeature, point)) points.push(point)
pushIfContained(feature, pts, point) ==
    IF geoContains(feature, point) THEN Append(pts, point) ELSE pts

\* one iteration of the while loop of generateRandomPointsInCounty
generateDraw ==
    /\ pc = "generateRandomPointsInCounty"
    /\ whileCondition(points, attempts, numPoints)
    /\ \E point \in randomCandidates(countyFeature) :
           points' = pushIfContained(countyFeature, points, point)
    /\ attempts' = attempts + 1
    /\ UNCHANGED << variant, pc, caller, countiesGeoJSON, allMissingPersonsData, dataset,
                    keyIdx, victimIdx, victimsWithPositions, countyFeature,
                    numPoints, result, circles, dateString, yearResult, threw >>
    /\ UNCHANGED viewVars

-----------------------------------------------------------------------------
(* The sampler of part_000 *)

\* } while (!d3.geoContains(countyFeature, point))
doWhileCondition(feature, point) == ~ geoContains(feature, point)

countDraw(att) == IF att < MaxDraws THEN att + 1 ELSE att

\* one iteration of the do-while loop that is followed by another one
randomPointRetry ==
    /\ pc = "randomPointInCounty"
    /\ \E point \in randomCandidates(countyFeature) :
           doWhileCondition(countyFeature, point)
    /\ attempts' = countDraw(attempts)
    /\ UNCHANGED << variant, pc, caller, countiesGeoJSON, allMissingPersonsData, dataset,
                    keyIdx, victimIdx, victimsWithPositions, countyFeature,
                    numPoints, points, result, circles, dateString, yearResult,
                    threw >>
    /\ UNCHANGED viewVars

-----------------------------------------------------------------------------
(* Records and datasets *)

\* undefined for a feature (a missing countyMap entry)
UndefinedFeature == [ shapeName |-> Null, ring |-> { }, cells |-> { } ]

\* A raw record of the dataset.  Year is << >> when the record has no Year
\* field.  position (scripts.js) and county, year, randomPoint (part_000)
\* are the fields the scripts add; idx is the record's identity.
rawRecord(name, cnty, loc, date, manner) ==
    [ idx |-> 0, Name |-> name, County |-> cnty, Location |-> loc,
      Date |-> date, Manner |-> manner, Year |-> << >>,
      position |-> Undefined, county |-> Null, year |-> << >>,
      randomPoint |-> Undefined ]

RecordTemplates ==
    { rawRecord(<<"A","m","i","n","a">>, <<"N","A","I","R","O","B","I">>, <<"N","a","i","r","o","b","i"," ","C","B","D">>,
                <<"I","n","c","i","d","e","n","t"," ","o","n"," ","1","4"," ","M","a","r","c","h"," ","2","0","2","2">>, <<"S","H","O","T">>),
      rawRecord(<<"B","a","r","a","k","a">>, <<"U","n","k","n","o","w","n">>, <<"E","l","d","o","r","e","t"," ","t","o","w","n"," ","c","e","n","t","r","e">>,
                <<"U","n","k","n","o","w","n">>, <<"S","H","O","T">>),
      rawRecord(<<"C","h","e","g","e">>, <<"U","n","k","n","o","w","n">>, <<"N","y","a","n","d","a","r","u","a"," ","t","o"," ","M","o","m","b","a","s","a"," ","r","o","a","d">>,
                <<"2","0","2","1","-","0","6","-","0","1">>, <<"B","E","A","T","E","N">>),
      rawRecord(<<"D","a","l","i","l","a">>, Null, Null,
                <<"5"," ","M","a","y"," ","2","0","2","3">>, <<"S","H","O","T">>),
      rawRecord(<<"F","a","t","u","m","a">>, << >>, <<"M","o","m","b","a","s","a"," ","I","s","l","a","n","d">>,
                <<"J","u","n","e"," ","2","0","1","9">>, <<"M","I","S","S","I","N","G">>) }

\* every dataset of at most MaxRecords records; idx numbers them
RecordDatasets ==
    UNION { { [i \in 1..n |-> [ f[i] EXCEPT !.idx = i ]] :
                f \in [1..n -> RecordTemplates] } : n \in 0..MaxRecords }

\* topojson.feature(kenya, ...).features, with and without Nairobi
BoundaryDatasets == { << Nairobi, Mombasa >>, << Mombasa >> }

-----------------------------------------------------------------------------
(* County resolution of scripts.js *)

countyNamesScripts ==
    << <<"n","a","i","r","o","b","i">>,
       <<"m","o","m","b","a","s","a">>,
       <<"k","i","s","u","m","u">>,
       <<"n","a","k","u","r","u">>,
       <<"e","l","d","o","r","e","t">>,
       <<"t","h","i","k","a">>,
       <<"m","a","l","i","n","d","i">>,
       <<"k","i","t","a","l","e">>,
       <<"g","a","r","i","s","s","a">>,
       <<"k","a","k","a","m","e","g","a">>,
       <<"k","i","s","i","i">>,
       <<"m","e","r","u">>,
       <<"n","y","e","r","i">>,
       <<"m","a","c","h","a","k","o","s">>,
       <<"k","i","t","u","i">>,
       <<"e","m","b","u">>,
       <<"i","s","i","o","l","o">>,
       <<"l","a","m","u">>,
       <<"k","i","l","i","f","i">>,
       <<"k","w","a","l","e">>,
       <<"t","a","n","a"," ","r","i","v","e","r">>,
       <<"t","a","i","t","a"," ","t","a","v","e","t","a">>,
       <<"m","a","k","u","e","n","i">>,
       <<"k","a","j","i","a","d","o">>,
       <<"n","a","r","o","k">>,
       <<"n","y","a","m","i","r","a">>,
       <<"b","o","m","e","t">>,
       <<"b","u","n","g","o","m","a">>,
       <<"b","u","s","i","a">>,
       <<"v","i","h","i","g","a">>,
       <<"s","i","a","y","a">>,
       <<"h","o","m","a"," ","b","a","y">>,
       <<"m","i","g","o","r","i">>,
       <<"k","i","s","u","m","u">>,
       <<"n","y","a","m","i","r","a">>,
       <<"t","r","a","n","s"," ","n","z","o","i","a">>,
       <<"w","e","s","t"," ","p","o","k","o","t">>,
       <<"s","a","m","b","u","r","u">>,
       <<"t","u","r","k","a","n","a">>,
       <<"m","a","r","s","a","b","i","t">>,
       <<"m","a","n","d","e","r","a">>,
       <<"w","a","j","i","r">>,
       <<"i","s","i","o","l","o">>,
       <<"l","a","i","k","i","p","i","a">>,
       <<"n","y","a","n","d","a","r","u","a">>,
       <<"n","y","e","r","i">>,
       <<"m","u","r","a","n","g","'","a">>,
       <<"k","i","a","m","b","u">>,
       <<"k","i","r","i","n","y","a","g","a">>,
       <<"n","y","e","r","i">> >>

\* person.County && person.County !== "" && person.Name && person.Name !== ""
hasCountyAndName(person) ==
    /\ Truthy(person.County)
    /\ person.County # << >>
    /\ Truthy(person.Name)
    /\ person.Name # << >>

\* for (const county of countyNames) if (location.includes(county)) ... break
firstIncluded(names, location) ==
    LET hits == { i \in 1..Len(names) : includes(location, names[i]) }
    IN  IF hits = { } THEN 0 ELSE SetMin(hits)

\* the forEach body that rewrites an "Unknown" County from the Location
inferCounty(person) ==
    IF person.County = <<"U","n","k","n","o","w","n">> /\ Truthy(person.Location)
    THEN LET location == toLowerCase(person.Location)
             hit == firstIncluded(countyNamesScripts, location)
         IN  IF hit = 0 THEN person
             ELSE [ person EXCEPT !.County = capitalize(countyNamesScripts[hit]) ]
    ELSE person

\* a key that keeps the letter case of the name
countyMapKeyExact(feature) == feature.shapeName

\* key under which a feature is stored in countyMap
countyMapKey(feature) == toLowerCase(feature.shapeName)

\* countyMap[key]: a later feature of the same key overwrites an earlier one
countyMapGet(features, key) ==
    LET hits == { i \in 1..Len(features) : countyMapKey(features[i]) = key }
    IN  IF hits = { } THEN UndefinedFeature ELSE features[SetMax(hits)]

\* victim.County.toLowerCase()
victimKey(victim) == toLowerCase(victim.County)

\* Object.keys(victimsByCounty): the keys in order of first insertion
victimKeys(data) ==
    LET first == SelectSeq([i \in 1..Len(data) |-> i],
                    LAMBDA i : \A j \in 1..(i - 1) : victimKey(data[j]) # victimKey(data[i]))
    IN  [q \in 1..Len(first) |-> victimKey(data[first[q]])]

\* victimsByCounty[key]
victimsByCounty(data, key) == SelectSeq(data, LAMBDA v : victimKey(v) = key)

\* a placement that pushes every victim, with randomPoints[index] or undefined
placeVictimsUnguarded(victims, randomPoints) ==
    [i \in 1..Len(victims) |->
        [ victims[i] EXCEPT !.position =
            IF i <= Len(randomPoints) THEN randomPoints[i] ELSE Undefined ]]

\* victims.forEach((victim, index) => { if (index < randomPoints.length) push })
placeVictims(victims, randomPoints) ==
    LET m == IF Len(randomPoints) < Len(victims) THEN Len(randomPoints) ELSE Len(victims)
    IN  [i \in 1..m |-> [ victims[i] EXCEPT !.position = randomPoints[i] ]]

\* generateRandomPointsInCounty(nairobiFeature, 1)[0]
firstElement(pts) == IF Len(pts) > 0 THEN pts[1] ELSE Undefined

\* victimsWithPositions.push({...victim, position: randomPoint})
placeFallback(victim, randomPoints) ==
    [ victim EXCEPT !.position = firstElement(randomPoints) ]

\* the name of the fallback county
FallbackKey == <<"n","a","i","r","o","b","i">>

-----------------------------------------------------------------------------
(* County and year extraction of part_000 *)

countyNamesPart000 ==
    << <<"B","a","r","i","n","g","o">>,
       <<"B","o","m","e","t">>,
       <<"B","u","n","g","o","m","a">>,
       <<"B","u","s","i","a">>,
       <<"E","l","g","e","y","o","-","M","a","r","a","k","w","e","t">>,
       <<"E","m","b","u">>,
       <<"G","a","r","i","s","s","a">>,
       <<"H","o","m","a"," ","B","a","y">>,
       <<"I","s","i","o","l","o">>,
       <<"K","a","j","i","a","d","o">>,
       <<"K","a","k","a","m","e","g","a">>,
       <<"K","e","r","i","c","h","o">>,
       <<"K","i","a","m","b","u">>,
       <<"K","i","l","i","f","i">>,
       <<"K","i","r","i","n","y","a","g","a">>,
       <<"K","i","s","i","i">>,
       <<"K","i","s","u","m","u">>,
       <<"K","i","t","u","i">>,
       <<"K","w","a","l","e">>,
       <<"L","a","i","k","i","p","i","a">>,
       <<"L","a","m","u">>,
       <<"M","a","c","h","a","k","o","s">>,
       <<"M","a","k","u","e","n","i">>,
       <<"M","a","n","d","e","r","a">>,
       <<"M","a","r","s","a","b","i","t">>,
       <<"M","e","r","u">>,
       <<"M","i","g","o","r","i">>,
       <<"M","o","m","b","a","s","a">>,
       <<"M","u","r","a","n","g","'","a">>,
       <<"N","a","i","r","o","b","i">>,
       <<"N","a","k","u","r","u">>,
       <<"N","a","n","d","i">>,
       <<"N","a","r","o","k">>,
       <<"N","y","a","m","i","r","a">>,
       <<"N","y","a","n","d","a","r","u","a">>,
       <<"N","y","e","r","i">>,
       <<"S","a","m","b","u","r","u">>,
       <<"S","i","a","y","a">>,
       <<"T","a","i","t","a","-","T","a","v","e","t","a">>,
       <<"T","a","n","a"," ","R","i","v","e","r">>,
       <<"T","h","a","r","a","k","a","-","N","i","t","h","i">>,
       <<"T","r","a","n","s"," ","N","z","o","i","a">>,
       <<"T","u","r","k","a","n","a">>,
       <<"U","a","s","i","n"," ","G","i","s","h","u">>,
       <<"V","i","h","i","g","a">>,
       <<"W","a","j","i","r">>,
       <<"W","e","s","t"," ","P","o","k","o","t">> >>

yearsPart000 == << <<"2","0","2","1">>, <<"2","0","2","2">>, <<"2","0","2","3">> >>

Unknown == <<"u","n","k","n","o","w","n">>

DigitValue(c) == (CHOOSE i \in 1..10 : Digits[i] = c) - 1

IsDigit(c) == \E i \in 1..10 : Digits[i] = c

\* parseInt of a text made of four digits
parseInt4(s) ==
    1000 * DigitValue(s[1]) + 100 * DigitValue(s[2]) + 10 * DigitValue(s[3]) + DigitValue(s[4])

\* person["Manner of Death"] !== "MISSING THEN FOUND" && ... !== "MISSING"
confirmedDead(person) ==
    /\ person.Manner # <<"M","I","S","S","I","N","G"," ","T","H","E","N"," ","F","O","U","N","D">>
    /\ person.Manner # <<"M","I","S","S","I","N","G">>

\* countyNames.find(countyName => location.includes(countyName.toLowerCase())) || "unknown"
extractCounty(entry) ==
    LET location == toLowerCase(entry.Location)
        lowered == [i \in 1..Len(countyNamesPart000) |-> toLowerCase(countyNamesPart000[i])]
        hit == firstIncluded(lowered, location)
    IN  IF hit = 0 THEN Unknown ELSE countyNamesPart000[hit]

\* parseInt(years.find(currWord => date.includes(currWord))) || "unknown"
extractTheYear(date) ==
    LET hit == firstIncluded(yearsPart000, date)
    IN  IF hit = 0 THEN << >> ELSE << parseInt4(yearsPart000[hit]) >>

\* index of the first entry on which extractAndAppendCounty throws, 0 if none
firstWithoutLocation(data) ==
    LET bad == { i \in 1..Len(data) : data[i].Location = Null }
    IN  IF bad = { } THEN 0 ELSE SetMin(bad)

\* index of the first entry on which extractTheYear throws, 0 if none
firstWithoutDate(data) ==
    LET bad == { i \in 1..Len(data) : data[i].Date = Null }
    IN  IF bad = { } THEN 0 ELSE SetMin(bad)

\* extractAndAppendCounty applied to the entries before index stop (all if 0)
appendCounties(data, stop) ==
    [i \in 1..Len(data) |->
        IF stop = 0 \/ i < stop
        THEN [ data[i] EXCEPT !.county = extractCounty(data[i]) ]
        ELSE data[i]]

\* extractTheYear applied to the entries before index stop (all if 0)
appendYears(data, stop) ==
    [i \in 1..Len(data) |->
        IF stop = 0 \/ i < stop
        THEN [ data[i] EXCEPT !.year = extractTheYear(data[i].Date) ]
        ELSE data[i]]

\* person.county !== "unknown" && confirmed dead
knownCounty(person) == person.county # Unknown /\ confirmedDead(person)

\* showPeople(data, year): the records bound to the circles
showPeople(data, year) ==
    LET ofYear == IF year # << >>
                  THEN SelectSeq(data, LAMBDA d : d.year = year)
                  ELSE data
    IN  SelectSeq(ofYear, LAMBDA d : d.randomPoint # Undefined)


-----------------------------------------------------------------------------
(* Values of the page state *)

\* the text "all" of the year and county controls
All == <<"a","l","l">>

\* the fit target countiesGeoJSON (the whole map)
WholeMap == << "*" >>

\* projection is undefined until the boundary dataset is loaded; it also
\* stands for county paths that are not drawn
NoProjection == [ fit |-> Null, w |-> 0, h |-> 0, pct |-> 0, centred |-> FALSE ]

\* zoomToCounty fits a county to this percentage of the map size
CountyFit == 70

\* d3.geoMercator().fitSize([w * pct, h * pct], target); centred is set
\* by projection.translate([mapwidth / 2, mapHeight / 2])
fitSize(size, pct, target) ==
    [ fit |-> target, w |-> size[1], h |-> size[2], pct |-> pct, centred |-> FALSE ]

\* A transform of the map group: translate(margins), d3.zoomIdentity, the
\* transform clicked computes for a county (from the bounds of the county
\* under a projection and from a map size), or the transform of a gesture.
\* k is in tenths; translate is a pair of quotients of pixels (that of a
\* gesture is not tracked).
transformOf(kind, scale, county, size, proj) ==
    [ kind |-> kind, k |-> scale, on |-> county, w |-> size[1], h |-> size[2],
      proj |-> proj, translate |-> << << 0, 1 >>, << 0, 1 >> >> ]

\* const margins = { top: 20, right: 20, bottom: 20, left: 20 }
margins == [ top |-> 20, right |-> 20, bottom |-> 20, left |-> 20 ]

marginsTransform ==
    [ transformOf("margins", 10, Null, << 0, 0 >>, NoProjection)
          EXCEPT !.translate = << << margins.left, 1 >>, << margins.top, 1 >> >> ]

zoomIdentity == transformOf("identity", 10, Null, << 0, 0 >>, NoProjection)

\* no transition is in flight
NoTransition == [ active |-> FALSE, paths |-> NoProjection, zoom |-> marginsTransform ]

\* transition().duration(...).attr("d", geoPath) on the county paths and the mesh
pathTransition(proj) == [ active |-> TRUE, paths |-> proj, zoom |-> marginsTransform ]

\* svg.transition().duration(800).call(zoom.transform, t)
zoomTransition(t) == [ active |-> TRUE, paths |-> NoProjection, zoom |-> t ]

\* the pending timers: the debounced resize, the timer of the window load
\* handler, the delayed first update of loadData on a small screen, and
\* the delayed updates of zoomOut; loadEvent is TRUE once the window load
\* event has fired
NoTimers ==
    [ resize |-> FALSE, load |-> FALSE, mobile |-> FALSE, zoomOut |-> 0,
      loadEvent |-> FALSE ]

\* a measurement of the browser window and of #map-container
measure(innerWidth, width, height) ==
    [ innerWidth |-> innerWidth, width |-> width, height |-> height ]

\* the loading indicator of part_000: its display style and its text
loadingIndicator(display, text) == [ display |-> display, text |-> text ]

\* the filter of a join of the circles; no join has been made yet
filterOf(year, county) == [ year |-> year, county |-> county ]

NoFilter == filterOf(Null, Null)

\* no circle and no border mesh has been styled yet
NoStyles == [ r |-> Undefined, stroke |-> Undefined ]

\* the statistics elements before their first update
NoStatistics == [ totalCases |-> Undefined, visibleCases |-> Undefined ]

\* the page state of the specifications that do not use it
NoView ==
    /\ viewport = measure(0, 0, 0)
    /\ mapSize = << 0, 0 >>
    /\ projection = NoProjection
    /\ currentYear = All
    /\ currentCounty = All
    /\ isZoomedToCounty = FALSE
    /\ k = 10
    /\ currentZoomedCounty = Null
    /\ mapTransform = marginsTransform
    /\ pathsDrawn = NoProjection
    /\ transition = NoTransition
    /\ timers = NoTimers
    /\ loading = loadingIndicator("none", "loading")
    /\ controls = FALSE
    /\ shown = NoFilter
    /\ styles = NoStyles
    /\ statistics = NoStatistics
-----------------------------------------------------------------------------
(* Year extraction of scripts.js *)

\* \w of a regular expression
IsWordChar(c) ==
    \/ \E i \in 1..Len(UpperCase) : UpperCase[i] = c
    \/ \E i \in 1..Len(LowerCase) : LowerCase[i] = c
    \/ IsDigit(c)
    \/ c = "_"

\* \b between s[i-1] and s[i]
wordBoundary(s, i) ==
    LET before == i - 1 >= 1 /\ i - 1 <= Len(s) /\ IsWordChar(s[i - 1])
        after == i >= 1 /\ i <= Len(s) /\ IsWordChar(s[i])
    IN  before # after

\* the positions at which /\b(20\d{2})\b/ matches
yearMatches(s) ==
    { i \in 1..(Len(s) - 3) :
        /\ s[i] = "2"
        /\ s[i + 1] = "0"
        /\ IsDigit(s[i + 2])
        /\ IsDigit(s[i + 3])
        /\ wordBoundary(s, i)
        /\ wordBoundary(s, i + 4) }

\* extractYear; << >> is null
extractYear(s) ==
    IF ~ Truthy(s) \/ s = <<"U","n","k","n","o","w","n">> THEN << >>
    ELSE LET yearMatch == yearMatches(s)
         IN  IF yearMatch = { } THEN << >>
             ELSE << parseInt4(SubSeq(s, SetMin(yearMatch), SetMin(yearMatch) + 3)) >>

-----------------------------------------------------------------------------
(* loadData of scripts.js *)

\* the state of the variables no call is using
NoCall ==
    /\ countyFeature = UndefinedFeature
    /\ numPoints = 0
    /\ points = << >>
    /\ attempts = 0

NoTest ==
    /\ result = << >>
    /\ dateString = Null
    /\ yearResult = << >>
    /\ threw = FALSE

Init ==
    /\ variant \in { "scripts", "part_000" }
    /\ pc = "awaitKenya"
    /\ caller = "none"
    /\ countiesGeoJSON = << >>
    /\ allMissingPersonsData = << >>
    /\ dataset = << >>
    /\ keyIdx = 0
    /\ victimIdx = 0
    /\ victimsWithPositions = << >>
    /\ circles = << >>
    /\ NoCall
    /\ NoTest
    /\ NoView

\* kenya = await d3.json(...); countiesGeoJSON = topojson.feature(...)
kenyaLoaded ==
    /\ pc = "awaitKenya"
    /\ \E kenya \in BoundaryDatasets : countiesGeoJSON' = kenya
    /\ pc' = "awaitRecords"
    /\ UNCHANGED << variant, caller, allMissingPersonsData, dataset, keyIdx, victimIdx,
                    victimsWithPositions, countyFeature, numPoints, points,
                    attempts, result, circles, dateString, yearResult, threw >>
    /\ UNCHANGED viewVars

\* the filter of entries with missing data, then the county inference
prepareRecords(data) ==
    LET kept == SelectSeq(data, hasCountyAndName)
    IN  [i \in 1..Len(kept) |-> inferCounty(kept[i])]

\* the records arrive: filter, county inference, grouping
recordsLoadedScripts ==
    /\ variant = "scripts"
    /\ pc = "awaitRecords"
    /\ \E data \in RecordDatasets :
           /\ dataset' = data
           /\ allMissingPersonsData' = prepareRecords(data)
    /\ victimsWithPositions' = << >>
    /\ keyIdx' = 1
    /\ pc' = "forEachCounty"
    /\ UNCHANGED << variant, caller, countiesGeoJSON, victimIdx, countyFeature,
                    numPoints, points, attempts, result, circles, dateString,
                    yearResult, threw >>
    /\ UNCHANGED viewVars

\* the key and the victims of the current iteration of the outer forEach
countyName == victimKeys(allMissingPersonsData)[keyIdx]

victims == victimsByCounty(allMissingPersonsData, countyName)

\* if (countyFeature): call generateRandomPointsInCounty(countyFeature, victims.length)
resolvedCounty ==
    /\ pc = "forEachCounty"
    /\ keyIdx <= Len(victimKeys(allMissingPersonsData))
    /\ countyMapGet(countiesGeoJSON, countyName) # UndefinedFeature
    /\ countyFeature' = countyMapGet(countiesGeoJSON, countyName)
    /\ numPoints' = Len(victims)
    /\ points' = << >>
    /\ attempts' = 0
    /\ caller' = "resolved"
    /\ pc' = "generateRandomPointsInCounty"
    /\ UNCHANGED << variant, countiesGeoJSON, allMissingPersonsData, dataset, keyIdx,
                    victimIdx, victimsWithPositions, result, circles, dateString,
                    yearResult, threw >>
    /\ UNCHANGED viewVars

\* else: the victims of an unknown county are placed one by one
unknownCounty ==
    /\ pc = "forEachCounty"
    /\ keyIdx <= Len(victimKeys(allMissingPersonsData))
    /\ countyMapGet(countiesGeoJSON, countyName) = UndefinedFeature
    /\ victimIdx' = 1
    /\ pc' = "forEachVictim"
    /\ UNCHANGED << variant, caller, countiesGeoJSON, allMissingPersonsData, dataset,
                    keyIdx, victimsWithPositions, countyFeature, numPoints,
                    points, attempts, result, circles, dateString, yearResult,
                    threw >>
    /\ UNCHANGED viewVars

\* the sampler returns to the resolved branch: the victims are placed
generateReturnResolved ==
    /\ pc = "generateRandomPointsInCounty"
    /\ caller = "resolved"
    /\ ~ whileCondition(points, attempts, numPoints)
    /\ victimsWithPositions' = victimsWithPositions \o placeVictims(victims, points)
    /\ keyIdx' = keyIdx + 1
    /\ pc' = "forEachCounty"
    /\ caller' = "none"
    /\ countyFeature' = UndefinedFeature
    /\ numPoints' = 0
    /\ points' = << >>
    /\ attempts' = 0
    /\ UNCHANGED << variant, countiesGeoJSON, allMissingPersonsData, dataset, victimIdx,
                    result, circles, dateString, yearResult, threw >>
    /\ UNCHANGED viewVars

\* if (nairobiFeature): call generateRandomPointsInCounty(nairobiFeature, 1)
fallbackVictim ==
    /\ pc = "forEachVictim"
    /\ victimIdx <= Len(victims)
    /\ countyMapGet(countiesGeoJSON, FallbackKey) # UndefinedFeature
    /\ countyFeature' = countyMapGet(countiesGeoJSON, FallbackKey)
    /\ numPoints' = 1
    /\ points' = << >>
    /\ attempts' = 0
    /\ caller' = "fallback"
    /\ pc' = "generateRandomPointsInCounty"
    /\ UNCHANGED << variant, countiesGeoJSON, allMissingPersonsData, dataset, keyIdx,
                    victimIdx, victimsWithPositions, result, circles, dateString,
                    yearResult, threw >>
    /\ UNCHANGED viewVars

\* no nairobiFeature: the victim is skipped
skipVictim ==
    /\ pc = "forEachVictim"
    /\ victimIdx <= Len(victims)
    /\ countyMapGet(countiesGeoJSON, FallbackKey) = UndefinedFeature
    /\ victimIdx' = victimIdx + 1
    /\ UNCHANGED << variant, pc, caller, countiesGeoJSON, allMissingPersonsData, dataset,
                    keyIdx, victimsWithPositions, countyFeature, numPoints,
                    points, attempts, result, circles, dateString, yearResult,
                    threw >>
    /\ UNCHANGED viewVars

\* the sampler returns to the fallback branch: the victim is pushed
generateReturnFallback ==
    /\ pc = "generateRandomPointsInCounty"
    /\ caller = "fallback"
    /\ ~ whileCondition(points, attempts, numPoints)
    /\ victimsWithPositions' =
           Append(victimsWithPositions, placeFallback(victims[victimIdx], points))
    /\ victimIdx' = victimIdx + 1
    /\ pc' = "forEachVictim"
    /\ caller' = "none"
    /\ countyFeature' = UndefinedFeature
    /\ numPoints' = 0
    /\ points' = << >>
    /\ attempts' = 0
    /\ UNCHANGED << variant, countiesGeoJSON, allMissingPersonsData, dataset, keyIdx,
                    result, circles, dateString, yearResult, threw >>
    /\ UNCHANGED viewVars

\* the inner forEach of the fallback branch is over
unknownCountyDone ==
    /\ pc = "forEachVictim"
    /\ victimIdx > Len(victims)
    /\ keyIdx' = keyIdx + 1
    /\ victimIdx' = 0
    /\ pc' = "forEachCounty"
    /\ UNCHANGED << variant, caller, countiesGeoJSON, allMissingPersonsData, dataset,
                    victimsWithPositions, countyFeature, numPoints, points,
                    attempts, result, circles, dateString, yearResult, threw >>
    /\ UNCHANGED viewVars

\* allMissingPersonsData = victimsWithPositions
placementDone ==
    /\ pc = "forEachCounty"
    /\ keyIdx > Len(victimKeys(allMissingPersonsData))
    /\ allMissingPersonsData' = victimsWithPositions
    /\ pc' = "loaded"
    /\ UNCHANGED << variant, caller, countiesGeoJSON, dataset, keyIdx, victimIdx,
                    victimsWithPositions, countyFeature, numPoints, points,
                    attempts, result, circles, dateString, yearResult, threw >>
    /\ UNCHANGED viewVars

-----------------------------------------------------------------------------
(* loadData of part_000 *)

\* the entries that survive the first filter
confirmedDeadOf(data) == SelectSeq(data, confirmedDead)

\* the records arrive and every entry has its texts: county, year, filter
recordsLoadedPart000 ==
    /\ variant = "part_000"
    /\ pc = "awaitRecords"
    /\ \E data \in RecordDatasets :
           /\ dataset' = data
           /\ firstWithoutLocation(confirmedDeadOf(data)) = 0
           /\ firstWithoutDate(confirmedDeadOf(data)) = 0
           /\ allMissingPersonsData' =
                  SelectSeq(appendYears(appendCounties(confirmedDeadOf(data), 0), 0),
                            knownCounty)
    /\ keyIdx' = 1
    /\ pc' = "forEachRecord"
    /\ UNCHANGED << variant, caller, countiesGeoJSON, victimIdx,
                    victimsWithPositions, countyFeature, numPoints, points,
                    attempts, result, circles, dateString, yearResult, threw >>
    /\ UNCHANGED viewVars

\* entry.Location.toLowerCase() or entry["Date of Incident"].includes throws
\* on an entry without that text: the catch block ends loadData
recordsThrowPart000 ==
    /\ variant = "part_000"
    /\ pc = "awaitRecords"
    /\ \E data \in RecordDatasets :
           LET dead == confirmedDeadOf(data)
               stopCounty == firstWithoutLocation(dead)
               withCounty == appendCounties(dead, stopCounty)
           IN  /\ dataset' = data
               /\ stopCounty # 0 \/ firstWithoutDate(dead) # 0
               /\ allMissingPersonsData' =
                      IF stopCounty # 0 THEN withCounty
                      ELSE appendYears(withCounty, firstWithoutDate(dead))
    /\ pc' = "error"
    /\ UNCHANGED << variant, caller, countiesGeoJSON, keyIdx, victimIdx,
                    victimsWithPositions, countyFeature, numPoints, points,
                    attempts, result, circles, dateString, yearResult, threw >>
    /\ UNCHANGED viewVars

\* d.county.toLowerCase() of the current iteration of the forEach
recordKey == toLowerCase(allMissingPersonsData[keyIdx].county)

\* if (countyFeature): call randomPointInCounty(countyFeature)
placeRecord ==
    /\ pc = "forEachRecord"
    /\ keyIdx <= Len(allMissingPersonsData)
    /\ countyMapGet(countiesGeoJSON, recordKey) # UndefinedFeature
    /\ countyFeature' = countyMapGet(countiesGeoJSON, recordKey)
    /\ attempts' = 0
    /\ caller' = "forEachRecord"
    /\ pc' = "randomPointInCounty"
    /\ UNCHANGED << variant, countiesGeoJSON, allMissingPersonsData, dataset,
                    keyIdx, victimIdx, victimsWithPositions, numPoints, points,
                    result, circles, dateString, yearResult, threw >>
    /\ UNCHANGED viewVars

\* no countyFeature: the record keeps no randomPoint
skipRecord ==
    /\ pc = "forEachRecord"
    /\ keyIdx <= Len(allMissingPersonsData)
    /\ countyMapGet(countiesGeoJSON, recordKey) = UndefinedFeature
    /\ keyIdx' = keyIdx + 1
    /\ UNCHANGED << variant, pc, caller, countiesGeoJSON, allMissingPersonsData,
                    dataset, victimIdx, victimsWithPositions, countyFeature,
                    numPoints, points, attempts, result, circles, dateString,
                    yearResult, threw >>
    /\ UNCHANGED viewVars

\* the last iteration of the do-while loop: d.randomPoint = randomPoint
randomPointReturn ==
    /\ pc = "randomPointInCounty"
    /\ caller = "forEachRecord"
    /\ \E point \in randomCandidates(countyFeature) :
           /\ ~ doWhileCondition(countyFeature, point)
           /\ allMissingPersonsData' =
                  [ allMissingPersonsData EXCEPT ![keyIdx].randomPoint = point ]
    /\ keyIdx' = keyIdx + 1
    /\ pc' = "forEachRecord"
    /\ caller' = "none"
    /\ countyFeature' = UndefinedFeature
    /\ attempts' = 0
    /\ UNCHANGED << variant, countiesGeoJSON, dataset, victimIdx,
                    victimsWithPositions, numPoints, points, result, circles,
                    dateString, yearResult, threw >>
    /\ UNCHANGED viewVars

\* showPeople(allMissingPersonsData, null)
recordsPlaced ==
    /\ pc = "forEachRecord"
    /\ keyIdx > Len(allMissingPersonsData)
    /\ circles' = showPeople(allMissingPersonsData, << >>)
    /\ pc' = "loaded"
    /\ UNCHANGED << variant, caller, countiesGeoJSON, allMissingPersonsData,
                    dataset, keyIdx, victimIdx, victimsWithPositions,
                    countyFeature, numPoints, points, attempts, result,
                    dateString, yearResult, threw >>
    /\ UNCHANGED viewVars

Next ==
    \/ kenyaLoaded
    \/ recordsLoadedScripts
    \/ resolvedCounty
    \/ unknownCounty
    \/ generateDraw
    \/ generateReturnResolved
    \/ fallbackVictim
    \/ skipVictim
    \/ generateReturnFallback
    \/ unknownCountyDone
    \/ placementDone
    \/ recordsLoadedPart000
    \/ recordsThrowPart000
    \/ placeRecord
    \/ skipRecord
    \/ randomPointRetry
    \/ randomPointReturn
    \/ recordsPlaced

Spec == Init /\ [][Next]_vars

-----------------------------------------------------------------------------
(* The two samplers applied to every feature and count *)

TestFeatures == { Nairobi, Mombasa, Lamu }

NoLoad ==
    /\ countiesGeoJSON = << >>
    /\ allMissingPersonsData = << >>
    /\ dataset = << >>
    /\ keyIdx = 0
    /\ victimIdx = 0
    /\ victimsWithPositions = << >>
    /\ circles = << >>

InitSampler ==
    /\ \/ /\ variant = "scripts"
          /\ pc = "generateRandomPointsInCounty"
          /\ numPoints \in 0..MaxCount
       \/ /\ variant = "part_000"
          /\ pc = "randomPointInCounty"
          /\ numPoints = 1
    /\ countyFeature \in TestFeatures
    /\ points = << >>
    /\ attempts = 0
    /\ caller = "test"
    /\ NoLoad
    /\ NoTest
    /\ NoView

\* return points
generateReturnTest ==
    /\ pc = "generateRandomPointsInCounty"
    /\ caller = "test"
    /\ ~ whileCondition(points, attempts, numPoints)
    /\ result' = points
    /\ pc' = "returned"
    /\ UNCHANGED << variant, caller, countiesGeoJSON, allMissingPersonsData,
                    dataset, keyIdx, victimIdx, victimsWithPositions,
                    countyFeature, numPoints, points, attempts, circles,
                    dateString, yearResult, threw >>
    /\ UNCHANGED viewVars

\* return point
randomPointReturnTest ==
    /\ pc = "randomPointInCounty"
    /\ caller = "test"
    /\ \E point \in randomCandidates(countyFeature) :
           /\ ~ doWhileCondition(countyFeature, point)
           /\ result' = << point >>
    /\ attempts' = countDraw(attempts)
    /\ pc' = "returned"
    /\ UNCHANGED << variant, caller, countiesGeoJSON, allMissingPersonsData,
                    dataset, keyIdx, victimIdx, victimsWithPositions,
                    countyFeature, numPoints, points, circles, dateString,
                    yearResult, threw >>
    /\ UNCHANGED viewVars

NextSampler ==
    \/ generateDraw
    \/ generateReturnTest
    \/ randomPointRetry
    \/ randomPointReturnTest

SpecSampler == InitSampler /\ [][NextSampler]_vars

-----------------------------------------------------------------------------
(* The two year extractions applied to every date text *)

IncidentPrefix == <<"I","n","c","i","d","e","n","t"," ","o","n"," ","1","4"," ","M","a","r","c","h"," ">>

IsoSuffix == <<"-","0","3","-","1","4">>

\* a date text, the year of its first 4-digit token that starts with 20
\* (<< >> if it has none), and the first of 2021, 2022, 2023 that occurs in it
dateCase(text, token, listed) == [ text |-> text, token |-> token, listed |-> listed ]

listedYear(y) == IF y \in { 2021, 2022, 2023 } THEN << y >> ELSE << >>

DateCases ==
    { dateCase(IncidentPrefix \o << "2", "0", Digits[a + 1], Digits[b + 1] >>,
               << 2000 + 10 * a + b >>, listedYear(2000 + 10 * a + b)) :
          a \in 0..9, b \in 0..9 }
    \cup
    { dateCase(<< "2", "0", Digits[a + 1], Digits[b + 1] >> \o IsoSuffix,
               << 2000 + 10 * a + b >>, listedYear(2000 + 10 * a + b)) :
          a \in 0..9, b \in 0..9 }
    \cup
    { dateCase(Null, << >>, << >>),
      dateCase(<< >>, << >>, << >>),
      dateCase(<<"U","n","k","n","o","w","n">>, << >>, << >>),
      dateCase(<<"1","4","/","0","3","/","1","9","9","9">>, << >>, << >>),
      dateCase(<<"d","a","t","e"," ","n","o","t"," ","r","e","c","o","r","d","e","d">>, << >>, << >>),
      dateCase(<<"r","e","f","2","0","2","2","3">>, << >>, << 2022 >>),
      dateCase(<<"3"," ","F","e","b"," ","2","0","2","3"," ","o","r"," ","1"," ","J","a","n"," ","2","0","2","1">>, << 2023 >>, << 2021 >>) }

InitYear ==
    /\ \/ variant = "scripts" /\ pc = "extractYear"
       \/ variant = "part_000" /\ pc = "extractTheYear"
    /\ dateString \in { c.text : c \in DateCases }
    /\ yearResult = << >>
    /\ result = << >>
    /\ threw = FALSE
    /\ caller = "test"
    /\ NoLoad
    /\ NoCall
    /\ NoView

\* extractYear(dateString)
callExtractYear ==
    /\ pc = "extractYear"
    /\ yearResult' = extractYear(dateString)
    /\ pc' = "returned"
    /\ UNCHANGED << variant, caller, countiesGeoJSON, allMissingPersonsData,
                    dataset, keyIdx, victimIdx, victimsWithPositions,
                    countyFeature, numPoints, points, attempts, result, circles,
                    dateString, threw >>
    /\ UNCHANGED viewVars

\* entry.year of an entry whose "Date of Incident" is dateString
callExtractTheYear ==
    /\ pc = "extractTheYear"
    /\ IF dateString = Null
       THEN threw' = TRUE /\ UNCHANGED yearResult
       ELSE yearResult' = extractTheYear(dateString) /\ UNCHANGED threw
    /\ pc' = "returned"
    /\ UNCHANGED << variant, caller, countiesGeoJSON, allMissingPersonsData,
                    dataset, keyIdx, victimIdx, victimsWithPositions,
                    countyFeature, numPoints, points, attempts, result, circles,
                    dateString >>
    /\ UNCHANGED viewVars

NextYear ==
    \/ callExtractYear
    \/ callExtractTheYear

SpecYear == InitYear /\ [][NextYear]_vars


-----------------------------------------------------------------------------
(* The page: geography, screens and datasets *)

\* the boundary dataset of the page: a county with one grid point inside it
\* and one outside, a larger county with one grid point inside it, and the
\* fallback county, which spans the whole map
ViewBoundaries ==
    << [ shapeName |-> <<"K","i","s","u","m","u">>,
         ring |-> { <<5, 0>>, <<5, 1>> },
         cells |-> { <<5, 0>> } ],
       [ shapeName |-> <<"K","i","a","m","b","u">>,
         ring |-> { <<8, 8>>, <<11, 11>> },
         cells |-> { <<9, 9>> } ],
       [ shapeName |-> <<"N","a","i","r","o","b","i">>,
         ring |-> { <<0, 0>>, <<24, 24>> },
         cells |-> { <<12, 12>> } ] >>

\* window.innerWidth <= 768
SmallScreen == 768

isSmallScreen(vp) == vp.innerWidth <= SmallScreen

\* a desktop window and a phone
Viewports == { measure(1280, 1000, 640), measure(360, 360, 640) }

\* the width and height attributes of svg#canvas in the page of part_000
svgAttributes == << 1000, 640 >>

\* width - (margins.left + margins.right), height - (margins.top + margins.bottom)
mapSizeOf(width, height) ==
    << width - (margins.left + margins.right), height - (margins.top + margins.bottom) >>

\* the record datasets of the page: a record without a year, a record with
\* a Year field whose County is in capitals, and a record of another county;
\* and a dataset with a record of a county that has no boundary feature
ViewDatasets ==
    LET number(data) == [i \in 1..Len(data) |-> [ data[i] EXCEPT !.idx = i ]]
        withYear(record, y) == [ record EXCEPT !.Year = << y >> ]
        Zawadi == rawRecord(<<"Z","a","w","a","d","i">>, <<"K","i","s","u","m","u">>, <<"K","i","s","u","m","u"," ","C","e","n","t","r","a","l">>,
                            <<"U","n","k","n","o","w","n">>, <<"S","H","O","T">>)
        Kamau == withYear(rawRecord(<<"K","a","m","a","u">>, <<"K","I","S","U","M","U">>, <<"K","i","s","u","m","u"," ","W","e","s","t">>,
                                    <<"2","0","2","1","-","0","6","-","0","1">>, <<"B","E","A","T","E","N">>), 2023)
        Amina == rawRecord(<<"A","m","i","n","a">>, <<"K","i","a","m","b","u">>, <<"K","i","a","m","b","u"," ","t","o","w","n">>,
                           <<"I","n","c","i","d","e","n","t"," ","o","n"," ","1","4"," ","M","a","r","c","h"," ","2","0","2","2">>, <<"S","H","O","T">>)
        Otieno == rawRecord(<<"O","t","i","e","n","o">>, <<"M","o","m","b","a","s","a">>, <<"M","o","m","b","a","s","a"," ","I","s","l","a","n","d">>,
                            <<"I","n","c","i","d","e","n","t"," ","o","n"," ","1","4"," ","M","a","r","c","h"," ","2","0","2","2">>, <<"S","H","O","T">>)
    IN  { number(<< Zawadi, Kamau, Amina >>), number(<< Zawadi, Otieno >>) }

-----------------------------------------------------------------------------
(* The outcomes of the placement *)

\* one evaluation of the loop condition and, where it holds, of the loop
\* body, on the set S of loop states (points, attempts)
loopStep(S, feature, n) ==
    LET running == { s \in S : whileCondition(s.points, s.attempts, n) }
        next == { [ points |-> pushIfContained(feature, s.points, point),
                    attempts |-> s.attempts + 1 ] :
                      s \in running, point \in randomCandidates(feature) }
    IN  { s : s \in (S \ running) \cup next }

RECURSIVE loopSteps(_, _, _, _)
\* m times loopStep, by halves
loopSteps(S, feature, n, m) ==
    IF m = 0 THEN S
    ELSE IF m = 1 THEN loopStep(S, feature, n)
    ELSE UNION { loopSteps(half, feature, n, m - (m \div 2)) :
                     half \in { loopSteps(S, feature, n, m \div 2) } }

\* every array generateRandomPointsInCounty(countyFeature, numPoints) can
\* return: the loop has ended after maxAttempts evaluations of its condition
generateRandomPointsInCounty(feature, n) ==
    { s.points : s \in loopSteps({ [ points |-> << >>, attempts |-> 0 ] },
                                  feature, n, maxAttempts(n)) }

\* every point randomPointInCounty(countyFeature) can return
randomPointInCounty(feature) ==
    { point \in randomCandidates(feature) : ~ doWhileCondition(feature, point) }

RECURSIVE forEachVictim(_, _, _, _)
\* the else branch of the outer forEach of scripts.js, from victim i on:
\* every array victimsWithPositions can be afterwards
forEachVictim(list, features, i, placed) ==
    LET nairobi == countyMapGet(features, FallbackKey)
    IN  IF i > Len(list) THEN { placed }
        ELSE IF nairobi = UndefinedFeature
             THEN forEachVictim(list, features, i + 1, placed)
             ELSE UNION { forEachVictim(list, features, i + 1,
                                        Append(placed, placeFallback(list[i], pts))) :
                              pts \in generateRandomPointsInCounty(nairobi, 1) }

RECURSIVE forEachCounty(_, _, _, _)
\* Object.keys(victimsByCounty).forEach of scripts.js, from key i on
forEachCounty(data, features, i, placed) ==
    IF i > Len(victimKeys(data)) THEN { placed }
    ELSE LET key == victimKeys(data)[i]
             list == victimsByCounty(data, key)
             feature == countyMapGet(features, key)
         IN  IF feature # UndefinedFeature
             THEN UNION { forEachCounty(data, features, i + 1,
                                        placed \o placeVictims(list, pts)) :
                              pts \in generateRandomPointsInCounty(feature, Len(list)) }
             ELSE UNION { forEachCounty(data, features, i + 1, after) :
                              after \in forEachVictim(list, features, 1, placed) }

\* every value of allMissingPersonsData after the placement of scripts.js
placementsScripts(data, features) ==
    forEachCounty(prepareRecords(data), features, 1, << >>)

RECURSIVE forEachRecord(_, _, _)
\* allMissingPersonsData.forEach of part_000, from record i on
forEachRecord(data, features, i) ==
    IF i > Len(data) THEN { data }
    ELSE LET feature == countyMapGet(features, toLowerCase(data[i].county))
         IN  IF feature = UndefinedFeature THEN forEachRecord(data, features, i + 1)
             ELSE UNION { forEachRecord([ data EXCEPT ![i].randomPoint = point ],
                                        features, i + 1) :
                              point \in randomPointInCounty(feature) }

\* every value of allMissingPersonsData after the placement of part_000
placementsPart000(data, features) ==
    forEachRecord(SelectSeq(appendYears(appendCounties(confirmedDeadOf(data), 0), 0),
                            knownCounty),
                  features, 1)

-----------------------------------------------------------------------------
(* The page state and the functions of scripts.js that change it *)

\* the module-level state of the script and what is drawn
page ==
    [ allMissingPersonsData |-> allMissingPersonsData, circles |-> circles,
      mapSize |-> mapSize, projection |-> projection,
      currentYear |-> currentYear, currentCounty |-> currentCounty,
      isZoomedToCounty |-> isZoomedToCounty, k |-> k,
      currentZoomedCounty |-> currentZoomedCounty, mapTransform |-> mapTransform,
      pathsDrawn |-> pathsDrawn, transition |-> transition, timers |-> timers,
      shown |-> shown, styles |-> styles, statistics |-> statistics ]

\* the handler leaves the page in state p
becomes(p) ==
    \E next \in { p } :
        /\ allMissingPersonsData' = next.allMissingPersonsData
        /\ circles' = next.circles
        /\ mapSize' = next.mapSize
        /\ projection' = next.projection
        /\ currentYear' = next.currentYear
        /\ currentCounty' = next.currentCounty
        /\ isZoomedToCounty' = next.isZoomedToCounty
        /\ k' = next.k
        /\ currentZoomedCounty' = next.currentZoomedCounty
        /\ mapTransform' = next.mapTransform
        /\ pathsDrawn' = next.pathsDrawn
        /\ transition' = next.transition
        /\ timers' = next.timers
        /\ shown' = next.shown
        /\ styles' = next.styles
        /\ statistics' = next.statistics

\* d.Year || extractYear(d["Date of Incident"])
victimYear(d) == IF d.Year # << >> THEN d.Year ELSE extractYear(d.Date)

\* a year filter that also keeps the records without a year
filterKeepingUnknownYear(data, year, county) ==
    LET byYear == IF year # All
                  THEN SelectSeq(data, LAMBDA d : victimYear(d) = << parseInt4(year) >>
                                                  \/ victimYear(d) = << >>)
                  ELSE data
    IN  IF county # All
        THEN SelectSeq(byYear, LAMBDA d : /\ Truthy(d.County)
                                          /\ toLowerCase(d.County) = toLowerCase(county))
        ELSE byYear

\* filterDataByYearAndCounty(data, year, county)
filterDataByYearAndCounty(data, year, county) ==
    LET byYear == IF year # All
                  THEN SelectSeq(data, LAMBDA d : victimYear(d) = << parseInt4(year) >>)
                  ELSE data
    IN  IF county # All
        THEN SelectSeq(byYear, LAMBDA d : /\ Truthy(d.County)
                                          /\ toLowerCase(d.County) = toLowerCase(county))
        ELSE byYear

\* countiesGeoJSON.features.find(f => f.properties.shapeName.toLowerCase() === ...)
findFeature(features, name) ==
    LET hits == { i \in 1..Len(features) :
                      toLowerCase(features[i].shapeName) = toLowerCase(name) }
    IN  IF hits = { } THEN UndefinedFeature ELSE features[SetMin(hits)]

\* the projection is reset to the whole map and the county paths and the
\* mesh are sent there by a transition
resetToWholeMap(p, proj) ==
    [ p EXCEPT !.projection = proj,
               !.transition = IF p.pathsDrawn # NoProjection
                              THEN pathTransition(proj) ELSE p.transition,
               !.isZoomedToCounty = FALSE ]

\* zoomToCounty(countyName)
zoomToCounty(p, name, features) ==
    IF name = All
    THEN IF p.isZoomedToCounty
         THEN resetToWholeMap(p, [ fitSize(p.mapSize, 100, WholeMap)
                                      EXCEPT !.centred = TRUE ])
         ELSE p
    ELSE LET feature == findFeature(features, name)
             newProjection == fitSize(p.mapSize, CountyFit, feature.shapeName)
         IN  IF feature = UndefinedFeature THEN p
             ELSE [ p EXCEPT !.projection = newProjection,
                             !.transition = IF p.pathsDrawn # NoProjection
                                            THEN pathTransition(newProjection)
                                            ELSE p.transition,
                             !.isZoomedToCounty = TRUE ]

\* a zoomOut that leaves the county selection alone
zoomOutKeepingCounty(p) ==
    IF p.isZoomedToCounty
    THEN [ resetToWholeMap(p, fitSize(p.mapSize, 100, WholeMap))
               EXCEPT !.timers.zoomOut = @ + 1 ]
    ELSE p

\* zoomOut(), with its setTimeout(() => updateMap(), 850); the zoom-out
\* button is disabled wherever isZoomedToCounty is set to false and enabled
\* wherever it is set to true
zoomOut(p) ==
    IF p.isZoomedToCounty
    THEN [ resetToWholeMap(p, fitSize(p.mapSize, 100, WholeMap))
               EXCEPT !.currentCounty = All,
                      !.timers.zoomOut = @ + 1 ]
    ELSE p

\* an updateMap that keeps the filtered records as the dataset
updateMapOverwriting(p, features) ==
    LET filteredData == filterDataByYearAndCounty(p.allMissingPersonsData,
                                                  p.currentYear, p.currentCounty)
        zoomed == IF p.currentCounty # All THEN zoomToCounty(p, p.currentCounty, features)
                  ELSE IF p.isZoomedToCounty
                       THEN resetToWholeMap(p, fitSize(p.mapSize, 100, WholeMap))
                       ELSE p
    IN  [ zoomed EXCEPT !.circles = filteredData, !.allMissingPersonsData = filteredData,
                        !.shown = filterOf(p.currentYear, p.currentCounty) ]

\* updateMap(): the circles are joined with the filtered records.  A
\* record without position makes projection(d.position) throw once the
\* circles are appended and removed; the throw ends the handler before
\* updateStatistics(filteredData).
updateMap(p, features) ==
    LET filteredData == filterDataByYearAndCounty(p.allMissingPersonsData,
                                                  p.currentYear, p.currentCounty)
        zoomed == IF p.currentCounty # All THEN zoomToCounty(p, p.currentCounty, features)
                  ELSE IF p.isZoomedToCounty
                       THEN resetToWholeMap(p, fitSize(p.mapSize, 100, WholeMap))
                       ELSE p
        thrown == \E i \in 1..Len(filteredData) : filteredData[i].position = Undefined
    IN  [ zoomed EXCEPT !.circles = filteredData,
                        !.shown = filterOf(p.currentYear, p.currentCounty),
                        !.statistics =
                            IF thrown THEN p.statistics
                            ELSE [ totalCases |-> << Len(p.allMissingPersonsData) >>,
                                   visibleCases |-> << Len(filteredData) >> ] ]

\* updateDimensions() of scripts.js under the measurement vp; the county
\* paths and the mesh are redrawn if they exist
updateDimensions(p, vp, features) ==
    LET size == mapSizeOf(vp.width, vp.height)
        proj == IF ~ p.isZoomedToCounty THEN fitSize(size, 100, WholeMap)
                ELSE p.projection
    IN  IF features # << >>
        THEN [ p EXCEPT !.mapSize = size,
                        !.mapTransform = marginsTransform,
                        !.projection = proj,
                        !.pathsDrawn = IF p.pathsDrawn # NoProjection THEN proj
                                       ELSE NoProjection ]
        ELSE [ p EXCEPT !.mapSize = size, !.mapTransform = marginsTransform ]

-----------------------------------------------------------------------------
(* The page of scripts.js *)

\* the variables the handlers of the page leave alone
loadVars == << variant, pc, countiesGeoJSON, dataset, viewport, loading, controls >>

InitView ==
    /\ variant \in { "scripts", "part_000" }
    /\ pc = "awaitKenya"
    /\ caller = "none"
    /\ NoLoad
    /\ NoCall
    /\ NoTest
    /\ viewport \in Viewports
    /\ mapSize = IF variant = "scripts" THEN mapSizeOf(viewport.width, viewport.height)
                 ELSE mapSizeOf(svgAttributes[1], svgAttributes[2])
    /\ projection = NoProjection
    /\ currentYear = All
    /\ currentCounty = All
    /\ isZoomedToCounty = FALSE
    /\ k = 10
    /\ currentZoomedCounty = Null
    /\ mapTransform = marginsTransform
    /\ pathsDrawn = NoProjection
    /\ transition = NoTransition
    /\ timers = NoTimers
    /\ loading = IF variant = "part_000" THEN loadingIndicator("block", "loading")
                 ELSE loadingIndicator("none", "loading")
    /\ controls = FALSE
    /\ shown = NoFilter
    /\ styles = NoStyles
    /\ statistics = NoStatistics

\* scripts.js: the boundary dataset arrives and the projection is fitted
kenyaFetchedScripts ==
    /\ variant = "scripts"
    /\ pc = "awaitKenya"
    /\ countiesGeoJSON' = ViewBoundaries
    /\ becomes([ page EXCEPT !.projection = fitSize(mapSize, 100, WholeMap) ])
    /\ pc' = "awaitRecords"
    /\ UNCHANGED << variant, dataset, viewport, loading, controls >>
    /\ UNCHANGED callVars

\* scripts.js: a fetch fails; the catch block writes to the console
fetchFailedScripts ==
    /\ variant = "scripts"
    /\ pc \in { "awaitKenya", "awaitRecords" }
    /\ pc' = "error"
    /\ becomes(page)
    /\ UNCHANGED << variant, countiesGeoJSON, dataset, viewport, loading, controls >>
    /\ UNCHANGED callVars

\* scripts.js: the records arrive; the rest of loadData runs to its end:
\* placement, county paths and mesh, controls, updateDimensions and the
\* first updateMap (delayed on a small screen)
recordsFetchedScripts ==
    /\ variant = "scripts"
    /\ pc = "awaitRecords"
    /\ \E data \in ViewDatasets :
         \E placed \in placementsScripts(data, countiesGeoJSON) :
           LET drawn == [ page EXCEPT !.allMissingPersonsData = placed,
                                      !.pathsDrawn = projection ]
               sized == updateDimensions(drawn, viewport, countiesGeoJSON)
           IN  /\ dataset' = data
               /\ becomes(IF isSmallScreen(viewport)
                          THEN [ sized EXCEPT !.timers.mobile = TRUE ]
                          ELSE updateMap(sized, countiesGeoJSON))
    /\ controls' = TRUE
    /\ pc' = "loaded"
    /\ UNCHANGED << variant, countiesGeoJSON, viewport, loading >>
    /\ UNCHANGED callVars

\* the years of the year buttons that the page is driven with
yearChoices == { All, <<"2","0","2","2">>, <<"2","0","2","3">> }

\* a click on a year button
yearButtonClick(year) ==
    /\ variant = "scripts"
    /\ pc = "loaded"
    /\ becomes(updateMap([ page EXCEPT !.currentYear = year ], countiesGeoJSON))
    /\ UNCHANGED loadVars
    /\ UNCHANGED callVars

\* the year the timeline slider is moved to
sliderChoices == { <<"2","0","2","3">> }

\* an input event of the timeline slider
timelineInput(year) ==
    /\ variant = "scripts"
    /\ pc = "loaded"
    /\ year # All
    /\ becomes(updateMap([ page EXCEPT !.currentYear = year ], countiesGeoJSON))
    /\ UNCHANGED loadVars
    /\ UNCHANGED callVars

\* [...new Set(allMissingPersonsData.map(d => d.County))]
countyOptions(data) == { data[i].County : i \in 1..Len(data) }

\* the number of county buttons
TopCounties == 6

\* the counties of the county buttons: the most frequent ones, the
\* earlier one first among equally frequent ones
topCounties(data) ==
    LET count(c) == Cardinality({ i \in 1..Len(data) : data[i].County = c })
        first(c) == SetMin({ i \in 1..Len(data) : data[i].County = c })
        before(c) == { o \in countyOptions(data) :
                           \/ count(o) > count(c)
                           \/ count(o) = count(c) /\ first(o) < first(c) }
    IN  { c \in countyOptions(data) : Cardinality(before(c)) < TopCounties }

\* a click on a county button
countyButtonClick(county) ==
    /\ variant = "scripts"
    /\ pc = "loaded"
    /\ county \in { All } \cup topCounties(allMissingPersonsData)
    /\ becomes(updateMap([ page EXCEPT !.currentCounty = county ], countiesGeoJSON))
    /\ UNCHANGED loadVars
    /\ UNCHANGED callVars

\* a change event of the county dropdown: its value has changed
countySelectChange(county) ==
    /\ variant = "scripts"
    /\ pc = "loaded"
    /\ county \in { All } \cup countyOptions(allMissingPersonsData)
    /\ county # currentCounty
    /\ becomes(updateMap([ page EXCEPT !.currentCounty = county ], countiesGeoJSON))
    /\ UNCHANGED loadVars
    /\ UNCHANGED callVars

\* a click on the zoom-out button, which is enabled while zoomed
zoomOutClick ==
    /\ variant = "scripts"
    /\ pc = "loaded"
    /\ timers.zoomOut < MaxTimers
    /\ becomes(zoomOut(page))
    /\ UNCHANGED loadVars
    /\ UNCHANGED callVars

\* the delayed updateMap of zoomOut
zoomOutTimer ==
    /\ variant = "scripts"
    /\ timers.zoomOut > 0
    /\ becomes(updateMap([ page EXCEPT !.timers.zoomOut = @ - 1 ], countiesGeoJSON))
    /\ UNCHANGED loadVars
    /\ UNCHANGED callVars

\* a resize event: debouncedResize restarts its timer
resizeEvent ==
    /\ variant = "scripts"
    /\ \E vp \in Viewports \ { viewport } : viewport' = vp
    /\ becomes([ page EXCEPT !.timers.resize = TRUE ])
    /\ UNCHANGED << variant, pc, countiesGeoJSON, dataset, loading, controls >>
    /\ UNCHANGED callVars

\* the timer of debouncedResize
resizeTimer ==
    /\ variant = "scripts"
    /\ timers.resize
    /\ becomes(updateDimensions([ page EXCEPT !.timers.resize = FALSE ],
                                viewport, countiesGeoJSON))
    /\ UNCHANGED loadVars
    /\ UNCHANGED callVars

\* the load event of the window
windowLoad ==
    /\ variant = "scripts"
    /\ ~ timers.loadEvent
    /\ becomes([ page EXCEPT !.timers.loadEvent = TRUE,
                             !.timers.load = isSmallScreen(viewport) ])
    /\ UNCHANGED loadVars
    /\ UNCHANGED callVars

\* the timer of the load handler
loadTimer ==
    /\ variant = "scripts"
    /\ timers.load
    /\ LET sized == updateDimensions([ page EXCEPT !.timers.load = FALSE ],
                                     viewport, countiesGeoJSON)
       IN  becomes(IF Len(allMissingPersonsData) > 0
                   THEN updateMap(sized, countiesGeoJSON) ELSE sized)
    /\ UNCHANGED loadVars
    /\ UNCHANGED callVars

\* the delayed first update of loadData on a small screen
mobileTimer ==
    /\ variant = "scripts"
    /\ timers.mobile
    /\ becomes(updateMap(updateDimensions([ page EXCEPT !.timers.mobile = FALSE ],
                                          viewport, countiesGeoJSON),
                         countiesGeoJSON))
    /\ UNCHANGED loadVars
    /\ UNCHANGED callVars

\* the transition of the county paths and the mesh ends on its target
pathTransitionEnd ==
    /\ variant = "scripts"
    /\ transition.active
    /\ becomes([ page EXCEPT !.pathsDrawn = transition.paths,
                             !.transition = NoTransition ])
    /\ UNCHANGED loadVars
    /\ UNCHANGED callVars

-----------------------------------------------------------------------------
(* The page of part_000 *)

\* a quotient of two naturals in lowest terms, and the smaller of two
\* quotients; a zero denominator is an infinite quotient
RECURSIVE gcd(_, _)
gcd(a, b) == IF b = 0 THEN a ELSE gcd(b, a % b)

quotient(n, d) == IF d = 0 THEN << 1, 0 >> ELSE << n \div gcd(n, d), d \div gcd(n, d) >>

minQuotient(a, b) ==
    IF a[2] = 0 THEN b
    ELSE IF b[2] = 0 THEN a
    ELSE IF a[1] * b[2] <= b[1] * a[2] THEN a ELSE b

\* the width and height in degrees of a fit target
extentOf(target, features) ==
    LET rings == IF target = WholeMap
                 THEN UNION { features[i].ring : i \in 1..Len(features) }
                 ELSE findFeature(features, target).ring
        xs == { point[1] : point \in rings }
        ys == { point[2] : point \in rings }
    IN  << SetMax(xs) - SetMin(xs), SetMax(ys) - SetMin(ys) >>

\* the pixels per degree of a projection made by fitSize
pixelsPerDegree(proj, features) ==
    LET extent == extentOf(proj.fit, features)
    IN  minQuotient(quotient(proj.w * proj.pct, 100 * extent[1]),
                    quotient(proj.h * proj.pct, 100 * extent[2]))

\* .scaleExtent([1, 10]), in tenths
scaleExtent == << 10, 100 >>

\* the scale of a wheel gesture is kept inside the scale extent
constrainScale(scale) ==
    IF scale < scaleExtent[1] THEN scaleExtent[1]
    ELSE IF scale > scaleExtent[2] THEN scaleExtent[2]
    ELSE scale

\* the 0.9 of clicked, in tenths
FitMargin == 9

\* Math.max(1, Math.min(mapwidth / countyWidth, mapHeight / countyHeight) * 0.9)
\* in tenths, rounded down; countyWidth and countyHeight are measured by
\* geoPath.bounds(d) under the current projection
fitScale(d, proj, size, features) ==
    LET perDegree == pixelsPerDegree(proj, features)
        extent == extentOf(d.shapeName, features)
        ratio == minQuotient(quotient(size[1] * perDegree[2], extent[1] * perDegree[1]),
                             quotient(size[2] * perDegree[2], extent[2] * perDegree[1]))
        scale == (FitMargin * ratio[1]) \div ratio[2]
    IN  IF scale < 10 THEN 10 ELSE scale

\* a translate that leaves the scale out
fitTranslateUnscaled(d, proj, size, scale, features) ==
    LET perDegree == pixelsPerDegree(proj, features)
        fitted == IF proj.fit = WholeMap
                  THEN UNION { features[i].ring : i \in 1..Len(features) }
                  ELSE findFeature(features, proj.fit).ring
        box == << (proj.w * proj.pct) \div 100, (proj.h * proj.pct) \div 100 >>
        extent == extentOf(proj.fit, features)
        centre(a) ==
            LET origin == SetMin({ point[a] : point \in fitted })
                lo == SetMin({ point[a] : point \in d.ring })
                hi == SetMax({ point[a] : point \in d.ring })
            IN  << (lo + hi - 2 * origin) * perDegree[1]
                       + box[a] * perDegree[2] - extent[a] * perDegree[1],
                   2 * perDegree[2] >>
        shift(a) == quotient(centre(a)[2] * size[a] - 2 * centre(a)[1],
                             2 * centre(a)[2])
    IN  << shift(1), shift(2) >>

\* [mapwidth / 2 - x * scale, mapHeight / 2 - y * scale] for the centre
\* (x, y) of geoPath.bounds(d): the pixel of a coordinate under a projection
\* made by fitSize is its distance from the edge of the fit target in
\* pixels, plus half of the room the target leaves in the box
fitTranslate(d, proj, size, scale, features) ==
    LET perDegree == pixelsPerDegree(proj, features)
        fitted == IF proj.fit = WholeMap
                  THEN UNION { features[i].ring : i \in 1..Len(features) }
                  ELSE findFeature(features, proj.fit).ring
        box == << (proj.w * proj.pct) \div 100, (proj.h * proj.pct) \div 100 >>
        extent == extentOf(proj.fit, features)
        centre(a) ==
            LET origin == SetMin({ point[a] : point \in fitted })
                lo == SetMin({ point[a] : point \in d.ring })
                hi == SetMax({ point[a] : point \in d.ring })
            IN  << (lo + hi - 2 * origin) * perDegree[1]
                       + box[a] * perDegree[2] - extent[a] * perDegree[1],
                   2 * perDegree[2] >>
        shift(a) == quotient(10 * centre(a)[2] * size[a] - 2 * centre(a)[1] * scale,
                             20 * centre(a)[2])
    IN  << shift(1), shift(2) >>

\* d3.zoomIdentity.translate(translate[0], translate[1]).scale(scale)
fitTransform(d, proj, size, features) ==
    LET scale == fitScale(d, proj, size, features)
    IN  [ transformOf("fit", scale, d.shapeName, size, proj)
              EXCEPT !.translate = fitTranslate(d, proj, size, scale, features) ]

\* a clicked whose scale is relative to the transform in effect
clickedRelative(p, d, features) ==
    IF p.currentZoomedCounty = d.shapeName
    THEN [ p EXCEPT !.transition = zoomTransition(zoomIdentity),
                    !.currentZoomedCounty = Null ]
    ELSE [ p EXCEPT !.transition =
                        zoomTransition([ fitTransform(d, p.projection, p.mapSize, features)
                                             EXCEPT !.k = (@ * p.mapTransform.k) \div 10 ]),
                    !.currentZoomedCounty = d.shapeName ]

\* a clicked that fits the county whether it is zoomed in or not
clickedNeverZoomsOut(p, d, features) ==
    [ p EXCEPT !.transition =
                   zoomTransition(fitTransform(d, p.projection, p.mapSize, features)),
               !.currentZoomedCounty = d.shapeName ]

\* a clicked that zooms out whenever a county is zoomed in
clickedAnyZoomsOut(p, d, features) ==
    IF p.currentZoomedCounty # Null
    THEN [ p EXCEPT !.transition = zoomTransition(zoomIdentity),
                    !.currentZoomedCounty = Null ]
    ELSE [ p EXCEPT !.transition =
                        zoomTransition(fitTransform(d, p.projection, p.mapSize, features)),
                    !.currentZoomedCounty = d.shapeName ]

\* clicked(event, d, countyElement)
clicked(p, d, features) ==
    IF p.currentZoomedCounty = d.shapeName
    THEN [ p EXCEPT !.transition = zoomTransition(zoomIdentity),
                    !.currentZoomedCounty = Null ]
    ELSE [ p EXCEPT !.transition =
                        zoomTransition(fitTransform(d, p.projection, p.mapSize, features)),
                    !.currentZoomedCounty = d.shapeName ]

\* const MIN_RADIUS = 2, const MAX_RADIUS = 10
MIN_RADIUS == 2

MAX_RADIUS == 10

\* a radius that is not clamped
calculateRadiusUnclamped(scale) == quotient(40, scale)

\* calculateRadius() for k = scale tenths:
\* Math.max(MIN_RADIUS, Math.min(4 / k, MAX_RADIUS))
calculateRadius(scale) ==
    LET baseRadius == quotient(40, scale)
        capped == minQuotient(baseRadius, << MAX_RADIUS, 1 >>)
    IN  IF capped[1] <= MIN_RADIUS * capped[2] THEN << MIN_RADIUS, 1 >> ELSE capped

\* zoomedFn(event): the transform of the map group, k, the r of the circles
\* and the stroke-width of the borders
zoomedFn(p, transform) ==
    [ p EXCEPT !.mapTransform = transform,
               !.k = transform.k,
               !.styles = [ r |-> calculateRadius(transform.k),
                            stroke |-> quotient(10, transform.k) ] ]

\* updateDimensions() of part_000 under the measurement vp
updateDimensionsPart000(p, vp, features) ==
    LET proj == fitSize(mapSizeOf(vp.width, vp.height), 100, WholeMap)
    IN  IF features # << >>
        THEN [ p EXCEPT !.mapTransform = marginsTransform,
                        !.projection = proj,
                        !.pathsDrawn = IF p.pathsDrawn # NoProjection THEN proj
                                       ELSE NoProjection,
                        !.styles = [ r |-> calculateRadius(p.k),
                                     stroke |-> quotient(10, p.k) ] ]
        ELSE [ p EXCEPT !.mapTransform = marginsTransform ]

\* part_000: the boundary dataset arrives; the projection is fitted and the
\* county paths and the mesh are drawn
kenyaFetchedPart000 ==
    /\ variant = "part_000"
    /\ pc = "awaitKenya"
    /\ countiesGeoJSON' = ViewBoundaries
    /\ becomes([ page EXCEPT !.projection = fitSize(mapSize, 100, WholeMap),
                             !.k = zoomIdentity.k,
                             !.pathsDrawn = fitSize(mapSize, 100, WholeMap),
                             !.styles.stroke = quotient(10, zoomIdentity.k) ])
    /\ pc' = "awaitRecords"
    /\ UNCHANGED << variant, dataset, viewport, loading, controls >>
    /\ UNCHANGED callVars

\* part_000: a fetch fails; the catch block hides the loading indicator
\* and then sets its text
fetchFailedPart000 ==
    /\ variant = "part_000"
    /\ pc \in { "awaitKenya", "awaitRecords" }
    /\ pc' = "error"
    /\ loading' = loadingIndicator("none", "error")
    /\ becomes(page)
    /\ UNCHANGED << variant, countiesGeoJSON, dataset, viewport, controls >>
    /\ UNCHANGED callVars

\* part_000: the records arrive; the rest of loadData runs to its end:
\* year buttons, extraction, placement, showPeople, zoom behaviour, click
\* listeners and updateDimensions
recordsFetchedPart000 ==
    /\ variant = "part_000"
    /\ pc = "awaitRecords"
    /\ \E data \in ViewDatasets :
         \E placed \in placementsPart000(data, countiesGeoJSON) :
           /\ dataset' = data
           /\ becomes(updateDimensionsPart000(
                          [ page EXCEPT !.allMissingPersonsData = placed,
                                        !.circles = showPeople(placed, << >>),
                                        !.shown = filterOf(All, All),
                                        !.styles.r = calculateRadius(k),
                                        !.statistics =
                                            [ totalCases |-> << Len(placed) >>,
                                              visibleCases |-> << Len(placed) >> ] ],
                          viewport, countiesGeoJSON))
    /\ loading' = loadingIndicator("none", "loading")
    /\ controls' = TRUE
    /\ pc' = "loaded"
    /\ UNCHANGED << variant, countiesGeoJSON, viewport >>
    /\ UNCHANGED callVars

\* a resize event: updateDimensions runs at once
resizePart000 ==
    /\ variant = "part_000"
    /\ \E vp \in Viewports \ { viewport } :
           /\ viewport' = vp
           /\ becomes(updateDimensionsPart000(page, vp, countiesGeoJSON))
    /\ UNCHANGED << variant, pc, countiesGeoJSON, dataset, loading, controls >>
    /\ UNCHANGED callVars

\* a click on the button of a year
yearClickPart000(year) ==
    /\ variant = "part_000"
    /\ pc = "loaded"
    /\ LET filteredData == SelectSeq(allMissingPersonsData,
                                     LAMBDA d : d.year = << parseInt4(year) >>)
       IN  becomes([ page EXCEPT !.circles =
                                     showPeople(filteredData, << parseInt4(year) >>),
                                 !.shown = filterOf(year, All),
                                 !.styles.r = calculateRadius(k),
                                 !.statistics =
                                     [ totalCases |-> << Len(allMissingPersonsData) >>,
                                       visibleCases |-> << Len(filteredData) >> ] ])
    /\ UNCHANGED loadVars
    /\ UNCHANGED callVars

\* a click on the button "All Years"
allYearsClick ==
    /\ variant = "part_000"
    /\ pc = "loaded"
    /\ becomes([ page EXCEPT !.circles = showPeople(allMissingPersonsData, << >>),
                             !.shown = filterOf(All, All),
                             !.styles.r = calculateRadius(k),
                             !.statistics =
                                 [ totalCases |-> << Len(allMissingPersonsData) >>,
                                   visibleCases |-> << Len(allMissingPersonsData) >> ] ])
    /\ UNCHANGED loadVars
    /\ UNCHANGED callVars

\* a click on the path of county d
countyClick(d) ==
    /\ variant = "part_000"
    /\ pc = "loaded"
    /\ becomes(clicked(page, d, countiesGeoJSON))
    /\ UNCHANGED loadVars
    /\ UNCHANGED callVars

\* a click on the circle of record d: with k === 1 it is a click on the
\* county of the record, otherwise the description of the record is shown
pointClick(d) ==
    /\ variant = "part_000"
    /\ pc = "loaded"
    /\ LET feature == countyMapGet(countiesGeoJSON, toLowerCase(d.county))
       IN  becomes(IF k = 10 /\ feature # UndefinedFeature
                   THEN clicked(page, feature, countiesGeoJSON)
                   ELSE page)
    /\ UNCHANGED loadVars
    /\ UNCHANGED callVars

\* the scales the wheel asks for, in tenths
WheelScales == { 5, 30, 300 }

\* a wheel or drag gesture on the svg: it interrupts the transition of the
\* svg; the wheel sets a scale inside the scale extent, a drag keeps k
zoomGesture(scale) ==
    /\ variant = "part_000"
    /\ pc = "loaded"
    /\ scale \in { constrainScale(wheel) : wheel \in WheelScales } \cup { k }
    /\ becomes(zoomedFn([ page EXCEPT !.transition = NoTransition ],
                        transformOf("gesture", scale, Null, << 0, 0 >>, NoProjection)))
    /\ UNCHANGED loadVars
    /\ UNCHANGED callVars

\* the transition of the svg ends: its last zoom event carries the target
zoomTransitionEnd ==
    /\ variant = "part_000"
    /\ transition.active
    /\ becomes(zoomedFn([ page EXCEPT !.transition = NoTransition ], transition.zoom))
    /\ UNCHANGED loadVars
    /\ UNCHANGED callVars

NextView ==
    \/ kenyaFetchedScripts
    \/ fetchFailedScripts
    \/ recordsFetchedScripts
    \/ \E year \in yearChoices : yearButtonClick(year)
    \/ \E year \in sliderChoices : timelineInput(year)
    \/ \E county \in { All } \cup countyOptions(allMissingPersonsData) :
           countyButtonClick(county)
    \/ \E county \in { All } \cup countyOptions(allMissingPersonsData) :
           countySelectChange(county)
    \/ zoomOutClick
    \/ zoomOutTimer
    \/ resizeEvent
    \/ resizeTimer
    \/ windowLoad
    \/ loadTimer
    \/ mobileTimer
    \/ pathTransitionEnd
    \/ kenyaFetchedPart000
    \/ fetchFailedPart000
    \/ recordsFetchedPart000
    \/ resizePart000
    \/ \E i \in 1..Len(yearsPart000) : yearClickPart000(yearsPart000[i])
    \/ allYearsClick
    \/ \E i \in 1..Len(countiesGeoJSON) : countyClick(countiesGeoJSON[i])
    \/ \E i \in 1..Len(circles) : pointClick(circles[i])
    \/ \E scale \in 10..300 : zoomGesture(scale)
    \/ zoomTransitionEnd

SpecView == InitView /\ [][NextView]_vars

\* the page of scripts.js while the window keeps its size: the filter
\* controls, the zoom-out button and the timer of zoomOut
NextZoomOut ==
    \/ kenyaFetchedScripts
    \/ fetchFailedScripts
    \/ recordsFetchedScripts
    \/ \E year \in yearChoices : yearButtonClick(year)
    \/ \E year \in sliderChoices : timelineInput(year)
    \/ \E county \in { All } \cup countyOptions(allMissingPersonsData) :
           countyButtonClick(county)
    \/ \E county \in { All } \cup countyOptions(allMissingPersonsData) :
           countySelectChange(county)
    \/ zoomOutClick
    \/ zoomOutTimer
    \/ pathTransitionEnd

\* the page of scripts.js before its fetches have answered
InitZoomOut == InitView /\ variant = "scripts"

\* the callback that zoomOut hands to setTimeout runs once it is due
SpecZoomOut == InitZoomOut /\ [][NextZoomOut]_vars /\ WF_vars(zoomOutTimer)
-----------------------------------------------------------------------------
(* Properties *)

\* the feature stored under the fallback key
nairobiFeature == countyMapGet(countiesGeoJSON, FallbackKey)

\* the region a placed record of scripts.js was resolved to
resolvedRegion(v) ==
    IF countyMapGet(countiesGeoJSON, victimKey(v)) # UndefinedFeature
    THEN countyMapGet(countiesGeoJSON, victimKey(v))
    ELSE nairobiFeature

\* the indices at which record number i of the dataset is in the placed set
placedAt(i) == { j \in 1..Len(allMissingPersonsData) : allMissingPersonsData[j].idx = i }

\* two texts are equal up to letter case
sameIgnoringCase(a, b) ==
    /\ Len(a) = Len(b)
    /\ \A i \in 1..Len(a) : toLowerChar(a[i]) = toLowerChar(b[i])

\* C1: once loading is complete, every record of the placed set (scripts.js)
\* and every record drawn by showPeople (part_000) has a position, and the
\* position lies inside the polygon of the region the record was resolved to.
C1_PlacedInsideRegion ==
    pc = "loaded" =>
        /\ variant = "scripts" =>
               \A j \in 1..Len(allMissingPersonsData) :
                   LET v == allMissingPersonsData[j]
                   IN  /\ v.position # Undefined
                       /\ v.position \in resolvedRegion(v).cells
        /\ variant = "part_000" =>
               \A j \in 1..Len(circles) :
                   LET d == circles[j]
                   IN  /\ d.randomPoint # Undefined
                       /\ d.randomPoint \in
                              countyMapGet(countiesGeoJSON, toLowerCase(d.county)).cells

\* C2: every point a sampler returns lies inside the polygon of the region
\* it was asked to sample; a point of the bounding box outside the polygon is
\* never returned.
C2_ReturnedPointsInside ==
    pc = "returned" =>
        \A i \in 1..Len(result) : result[i] \in countyFeature.cells

\* C2 witness: two points were returned for Nairobi after a candidate of the
\* bounding box was rejected.
C2_Witness ==
    /\ variant = "scripts"
    /\ pc = "returned"
    /\ countyFeature = Nairobi
    /\ Len(result) = 2
    /\ attempts > 2

\* C3: generateRandomPointsInCounty(R, n) returns at most n points, draws at
\* most n*100 candidates, returns fewer than n points only after exactly n*100
\* draws, and returns exactly n points when the region is its bounding box.
C3_CountAndCap ==
    variant = "scripts" =>
        /\ attempts <= numPoints * 100
        /\ pc = "returned" =>
               /\ Len(result) <= numPoints
               /\ Len(result) < numPoints => attempts = numPoints * 100
               /\ countyFeature.cells = randomCandidates(countyFeature)
                      => Len(result) = numPoints

\* C3 witness: a call for 2 points that returned 1 point after 200 draws.
C3_Witness ==
    /\ variant = "scripts"
    /\ pc = "returned"
    /\ numPoints = 2
    /\ Len(result) = 1
    /\ attempts = 200

\* C4: the number of candidates a sampling call draws never exceeds the
\* attempt cap count*100 (count is 1 for randomPointInCounty), so every call
\* ends.
C4_DrawsWithinCap ==
    pc \in { "generateRandomPointsInCounty", "randomPointInCounty", "returned" }
        => attempts <= numPoints * 100

\* C5: when the sampler returns m < s points for a resolved partition of s
\* records, the first m records are placed, record i with returned point i,
\* the other s-m records stay out of the placed set, and no record of the
\* partition gets an undefined position.
C5_ShortResultPlacement ==
    [][ ( /\ pc = "generateRandomPointsInCounty"
          /\ caller = "resolved"
          /\ pc' = "forEachCounty"
          /\ Len(points) < Len(victims) )
        => LET m == Len(points)
               before == Len(victimsWithPositions)
           IN  /\ Len(victimsWithPositions') = before + m
               /\ SubSeq(victimsWithPositions', 1, before) = victimsWithPositions
               /\ \A i \in 1..m :
                      /\ victimsWithPositions'[before + i].idx = victims[i].idx
                      /\ victimsWithPositions'[before + i].position = points[i]
                      /\ victimsWithPositions'[before + i].position # Undefined
               /\ \A i \in (m + 1)..Len(victims) :
                      \A j \in 1..Len(victimsWithPositions') :
                          victimsWithPositions'[j].idx # victims[i].idx
      ]_vars

\* C5 witness: the first partition has 2 records and is resolved, the sampler
\* returned 1 point, and only the first record was placed, at that point.
C5_Witness ==
    /\ variant = "scripts"
    /\ pc = "forEachCounty"
    /\ keyIdx = 2
    /\ Len(victimsByCounty(allMissingPersonsData, victimKeys(allMissingPersonsData)[1])) = 2
    /\ countyMapGet(countiesGeoJSON, victimKeys(allMissingPersonsData)[1]) # UndefinedFeature
    /\ Len(victimsWithPositions) = 1
    /\ victimsWithPositions[1].idx = 1
    /\ victimsWithPositions[1].position # Undefined

\* C6: every record whose county key is not in the region index is placed at
\* a point sampled from 'nairobi'; when the index has no 'nairobi' entry the
\* record is left out of the placed set.
C6_FallbackPlacement ==
    (variant = "scripts" /\ pc = "loaded") =>
        \A i \in 1..Len(prepareRecords(dataset)) :
            LET v == prepareRecords(dataset)[i]
            IN  countyMapGet(countiesGeoJSON, victimKey(v)) = UndefinedFeature =>
                    IF nairobiFeature # UndefinedFeature
                    THEN /\ placedAt(v.idx) # { }
                         /\ \A j \in placedAt(v.idx) :
                                allMissingPersonsData[j].position \in nairobiFeature.cells
                    ELSE placedAt(v.idx) = { }

\* the record's region field is missing, empty or names no boundary region
regionFieldUnusable(r) ==
    \/ ~ Truthy(r.County)
    \/ \A q \in 1..Len(countiesGeoJSON) :
           ~ sameIgnoringCase(countiesGeoJSON[q].shapeName, r.County)

\* the lowercased location contains none of the names
namesNoCounty(location, names) ==
    \A q \in 1..Len(names) : ~ includes(toLowerCase(location), toLowerCase(names[q]))

\* C7: a record whose region field is missing, empty or malformed never
\* aborts loading, and once loading is complete with 'nairobi' in the index
\* it is in the placed set (scripts.js) or among the drawn records (part_000:
\* a confirmed record whose location names no listed county).
C7_UnusableRegionPlaced ==
    /\ pc # "error"
    /\ (variant = "scripts" /\ pc = "loaded" /\ nairobiFeature # UndefinedFeature) =>
           \A i \in 1..Len(dataset) :
               regionFieldUnusable(dataset[i]) => placedAt(i) # { }
    /\ (variant = "part_000" /\ pc = "loaded" /\ nairobiFeature # UndefinedFeature) =>
           \A i \in 1..Len(dataset) :
               (confirmedDead(dataset[i])
                    /\ namesNoCounty(dataset[i].Location, countyNamesPart000))
                   => \E j \in 1..Len(circles) : circles[j].idx = i

firstListed(location, names, q) ==
    /\ includes(toLowerCase(location), toLowerCase(names[q]))
    /\ \A h \in 1..(q - 1) : ~ includes(toLowerCase(location), toLowerCase(names[h]))

\* C9: a record with no usable region field (missing, empty or "Unknown")
\* whose location contains a listed name resolves to the first such name of
\* the list; in part_000, which reads no region field, every confirmed
\* record whose location contains a listed name does.
C9_NoRegionFieldInferred ==
    /\ (variant = "scripts" /\ pc = "forEachCounty") =>
           \A i \in 1..Len(dataset) :
               LET r == dataset[i]
               IN  ( /\ ~ Truthy(r.County) \/ r.County = <<"U","n","k","n","o","w","n">>
                     /\ Truthy(r.Location)
                     /\ ~ namesNoCounty(r.Location, countyNamesScripts) )
                   => \E j \in placedAt(i) : \E q \in 1..Len(countyNamesScripts) :
                          /\ firstListed(r.Location, countyNamesScripts, q)
                          /\ sameIgnoringCase(allMissingPersonsData[j].County,
                                              countyNamesScripts[q])
    /\ (variant = "part_000" /\ pc = "forEachRecord") =>
           \A i \in 1..Len(dataset) :
               LET r == dataset[i]
               IN  (confirmedDead(r) /\ ~ namesNoCounty(r.Location, countyNamesPart000))
                   => \E j \in placedAt(i) : \E q \in 1..Len(countyNamesPart000) :
                          /\ firstListed(r.Location, countyNamesPart000, q)
                          /\ allMissingPersonsData[j].county = countyNamesPart000[q]

\* C10: both year extractions return the year of the 4-digit
\* token starting with 20, for every year 2000-2099, and the unknown-year
\* value for a missing date, "Unknown" or a text without such a token.
C10_YearOfToken ==
    pc = "returned" =>
        \A c \in DateCases :
            dateString = c.text => (~ threw /\ yearResult = c.token)


-----------------------------------------------------------------------------
(* The filters of the page *)

\* the year the script has derived for a placed record, << >> if unknown
yearOfRecord(r) == IF variant = "scripts" THEN victimYear(r) ELSE r.year

\* the record is placed
isPlaced(r) == IF variant = "scripts" THEN TRUE ELSE r.randomPoint # Undefined

\* the placed records of year Y (every year if Y is "all") and of county C
\* up to letter case (every county if C is "all"), in dataset order
placedOf(Y, C) ==
    SelectSeq(allMissingPersonsData,
              LAMBDA r : /\ isPlaced(r)
                         /\ Y = All \/ yearOfRecord(r) = << parseInt4(Y) >>
                         /\ C = All \/ sameIgnoringCase(r.County, C))

\* C11: a year filter Y shows exactly the placed records whose year is Y, so
\* a record of unknown year is shown under no year; 'all' years keeps
\* every placed record; a county filter C keeps exactly the records whose
\* County equals C up to letter case, and 'all' counties keeps every record.
C11_FilterShowsExactly ==
    shown # NoFilter => circles = placedOf(shown.year, shown.county)

\* a year and a county are selected in scripts.js: a record of that county
\* and of unknown year is hidden, and a shown record spells the county in
\* another letter case
C11_Witness ==
    /\ variant = "scripts"
    /\ pc = "loaded"
    /\ shown.year \in yearChoices \ { All }
    /\ shown.county \in countyOptions(allMissingPersonsData)
    /\ \E i \in 1..Len(circles) : circles[i].County # shown.county
    /\ \E i \in 1..Len(allMissingPersonsData) :
           /\ victimYear(allMissingPersonsData[i]) = << >>
           /\ allMissingPersonsData[i].County = shown.county

-----------------------------------------------------------------------------
(* The states of the view *)

\* the region the view of page state p is focused on or is heading to, Null
\* in the overview
focusOf(p) ==
    IF variant = "scripts"
    THEN IF p.isZoomedToCounty THEN p.projection.fit ELSE Null
    ELSE p.currentZoomedCounty

\* the projection (scripts.js) or the transform (part_000) that is in
\* effect in page state p once the transition in flight has ended
targetOf(p) ==
    IF variant = "scripts" THEN p.projection
    ELSE IF p.transition.active THEN p.transition.zoom ELSE p.mapTransform

\* page state p is the overview: no region is focused and the whole-map
\* projection or a transform that was not fitted to a region is in effect
isOverview(p) ==
    /\ focusOf(p) = Null
    /\ IF variant = "scripts" THEN targetOf(p).fit = WholeMap
       ELSE targetOf(p).kind # "fit"

\* the county feature of the record of a circle of part_000
featureOfPoint(d) == countyMapGet(countiesGeoJSON, toLowerCase(d.county))

\* the selections of a region through the controls of scripts.js
selectScripts(c) == countyButtonClick(c) \/ countySelectChange(c)

\* what every click of part_000 on a county path or on a point leaves alone,
\* and what every selection of a county in scripts.js leaves alone; the
\* handlers imply them, and the formulas below test them first
clickFrame == UNCHANGED << circles, mapTransform, k, projection, viewport >>

selectFrame == UNCHANGED << currentYear, mapSize, mapTransform, timers, viewport >>

\* C12 as stated: selecting the focused region R again returns the view to
\* the overview, for every region and through every selection control:
\* county path and point click in part_000, county button and dropdown in
\* scripts.js.
C12_ReselectReturnsToOverview ==
    [][ /\ \A i \in 1..Len(countiesGeoJSON) :
               ( /\ variant = "part_000"
                 /\ currentZoomedCounty = countiesGeoJSON[i].shapeName
                 /\ countyClick(countiesGeoJSON[i]) ) => isOverview(page')
        /\ \A j \in 1..Len(circles) :
               ( /\ variant = "part_000"
                 /\ featureOfPoint(circles[j]) # UndefinedFeature
                 /\ currentZoomedCounty = featureOfPoint(circles[j]).shapeName
                 /\ pointClick(circles[j]) ) => isOverview(page')
        /\ \A c \in countyOptions(allMissingPersonsData) :
               ( /\ variant = "scripts"
                 /\ isZoomedToCounty
                 /\ currentCounty = c
                 /\ selectScripts(c) ) => isOverview(page')
      ]_vars

\* C12, amended: in part_000 a click on the path of the focused county
\* starts the transition to the identity transform and clears the focus,
\* and a click on a point of the focused county does so only while k is 1:
\* at any other k it leaves the view as it is.  In scripts.js a click on the
\* button of the focused county keeps it focused; the overview is reached
\* by selecting 'all' or by the zoom-out button.
C12_ToggleByControl ==
    [][ /\ \A i \in 1..Len(countiesGeoJSON) :
               ( /\ variant = "part_000"
                 /\ currentZoomedCounty = countiesGeoJSON[i].shapeName
                 /\ clickFrame
                 /\ countyClick(countiesGeoJSON[i]) )
               => /\ isOverview(page')
                  /\ transition' = zoomTransition(zoomIdentity)
        /\ \A j \in 1..Len(circles) :
               ( /\ variant = "part_000"
                 /\ clickFrame
                 /\ featureOfPoint(circles[j]) # UndefinedFeature
                 /\ currentZoomedCounty = featureOfPoint(circles[j]).shapeName
                 /\ pointClick(circles[j]) )
               => IF k = 10
                  THEN isOverview(page') /\ transition' = zoomTransition(zoomIdentity)
                  ELSE UNCHANGED << currentZoomedCounty, transition, mapTransform, k >>
        /\ \A c \in countyOptions(allMissingPersonsData) :
               ( /\ variant = "scripts"
                 /\ isZoomedToCounty
                 /\ currentCounty = c
                 /\ currentCounty' = c
                 /\ selectFrame
                 /\ countyButtonClick(c) )
               => /\ focusOf(page') = focusOf(page)
                  /\ focusOf(page') # Null
                  /\ currentCounty' = c
        /\ ( /\ variant = "scripts"
             /\ isZoomedToCounty
             /\ currentCounty' = All
             /\ selectScripts(All) \/ zoomOutClick )
           => isOverview(page') /\ currentCounty' = All
      ]_vars

\* part_000: the path of the focused county was clicked while the map was
\* fitted to it, and the transition back to the identity transform runs
C12_Witness ==
    /\ variant = "part_000"
    /\ currentZoomedCounty = Null
    /\ transition = zoomTransition(zoomIdentity)
    /\ mapTransform.kind = "fit"
    /\ k > 10

\* C13 as stated: no step takes the view from one focused region to another
\* focused region; a different region is focused only from the overview.
C13_NoDirectRegionToRegion ==
    [][ focusOf(page) # Null /\ focusOf(page') # Null
            => focusOf(page') = focusOf(page) ]_vars

\* C13, amended: selecting a region R' of the boundary dataset while another
\* region R is focused focuses R' in that one step, with no overview state
\* in between: part_000 marks R' and starts the transition to the transform
\* fitted to R' (county path, or point click while k is 1), scripts.js
\* marks the view zoomed and fits the projection to R'.
C13_DirectRegionToRegion ==
    [][ /\ \A i \in 1..Len(countiesGeoJSON) :
               ( /\ variant = "part_000"
                 /\ currentZoomedCounty # Null
                 /\ currentZoomedCounty # countiesGeoJSON[i].shapeName
                 /\ clickFrame
                 /\ countyClick(countiesGeoJSON[i]) )
               => /\ currentZoomedCounty' = countiesGeoJSON[i].shapeName
                  /\ transition'.active
                  /\ transition'.zoom.kind = "fit"
                  /\ transition'.zoom.on = countiesGeoJSON[i].shapeName
        /\ \A j \in 1..Len(circles) :
               ( /\ variant = "part_000"
                 /\ k = 10
                 /\ currentZoomedCounty # Null
                 /\ clickFrame
                 /\ featureOfPoint(circles[j]) # UndefinedFeature
                 /\ currentZoomedCounty # featureOfPoint(circles[j]).shapeName
                 /\ pointClick(circles[j]) )
               => /\ currentZoomedCounty' = featureOfPoint(circles[j]).shapeName
                  /\ transition'.zoom.on = featureOfPoint(circles[j]).shapeName
        /\ \A c \in countyOptions(allMissingPersonsData) :
               ( /\ variant = "scripts"
                 /\ isZoomedToCounty
                 /\ currentCounty' = c
                 /\ selectFrame
                 /\ findFeature(countiesGeoJSON, c) # UndefinedFeature
                 /\ findFeature(countiesGeoJSON, c).shapeName # projection.fit
                 /\ selectScripts(c) )
               => /\ isZoomedToCounty'
                  /\ projection'.fit = findFeature(countiesGeoJSON, c).shapeName
                  /\ currentCounty' = c
      ]_vars

\* part_000: the map is fitted to one county while the transition to the
\* fit of another county, now the focused one, is in flight
C13_Witness ==
    /\ variant = "part_000"
    /\ mapTransform.kind = "fit"
    /\ transition.active
    /\ transition.zoom.kind = "fit"
    /\ transition.zoom.on # mapTransform.on
    /\ currentZoomedCounty = transition.zoom.on

\* page state p back in the overview, at the same container size: no region
\* is focused, and the identity transform (part_000) or the projection
\* fitted to the whole map (scripts.js) is in effect
overviewOf(p) ==
    IF variant = "scripts"
    THEN [ p EXCEPT !.isZoomedToCounty = FALSE,
                    !.currentCounty = All,
                    !.projection = fitSize(p.mapSize, 100, WholeMap) ]
    ELSE [ p EXCEPT !.currentZoomedCounty = Null,
                    !.mapTransform = zoomIdentity,
                    !.k = zoomIdentity.k,
                    !.transition = NoTransition ]

\* page states p and o show the same view: the same region is focused, the
\* same projection or transform is in effect and the same circles are shown
sameView(p, o) ==
    /\ focusOf(p) = focusOf(o)
    /\ targetOf(p) = targetOf(o)
    /\ p.circles = o.circles

\* C14: selecting a region R' while another region R is focused leaves the
\* view that selecting R' in the overview leaves at the same container
\* size: the same region is marked focused and the same transform or
\* projection is in effect, so the fit of R' does not depend on R.
C14_FitIndependentOfPreviousFocus ==
    [][ /\ \A i \in 1..Len(countiesGeoJSON) :
               ( /\ variant = "part_000"
                 /\ currentZoomedCounty # Null
                 /\ currentZoomedCounty # countiesGeoJSON[i].shapeName
                 /\ clickFrame
                 /\ countyClick(countiesGeoJSON[i]) )
               => sameView(page', clicked(overviewOf(page), countiesGeoJSON[i],
                                          countiesGeoJSON))
        /\ \A c \in countyOptions(allMissingPersonsData) :
               ( /\ variant = "scripts"
                 /\ isZoomedToCounty
                 /\ currentCounty' = c
                 /\ selectFrame
                 /\ findFeature(countiesGeoJSON, c) # UndefinedFeature
                 /\ findFeature(countiesGeoJSON, c).shapeName # projection.fit
                 /\ selectScripts(c) )
               => sameView(page', updateMap([ overviewOf(page) EXCEPT !.currentCounty = c ],
                                            countiesGeoJSON))
      ]_vars

\* scripts.js: the county paths are drawn for one county while the
\* projection is fitted to another county, the focused one, and the
\* transition of the paths to it is in flight
C14_Witness ==
    /\ variant = "scripts"
    /\ isZoomedToCounty
    /\ transition.active
    /\ transition.paths = projection
    /\ projection.fit # WholeMap
    /\ pathsDrawn.fit \notin { Null, WholeMap, projection.fit }

\* C15: the tracked scale k stays inside the scale extent of the zoom
\* behaviour, 1 <= k <= 10, after every gesture and every focus or unfocus
\* of a region.
C15_ScaleWithinExtent == scaleExtent[1] <= k /\ k <= scaleExtent[2]

\* the fit target of the view: the focused region of scripts.js, whose
\* projection is fitted to it, and otherwise the whole map
fitTarget == IF variant = "scripts" /\ isZoomedToCounty THEN projection.fit ELSE WholeMap

\* the projection is fitted to the container as it is measured now, and the
\* map size that the focus computations read is the size of that container
fitsContainer ==
    /\ mapSize = mapSizeOf(viewport.width, viewport.height)
    /\ projection.fit = fitTarget
    /\ << projection.w, projection.h >> = mapSizeOf(viewport.width, viewport.height)

\* C16: once updateDimensions has run for a resize of the container, the
\* projection is the fit of the current fit target to the new container
\* size minus margins, and the map size of the later focus computations is
\* the new one, not the one measured at startup.
C16_ResizeRefitsProjection ==
    [][ ( /\ countiesGeoJSON # << >>
          /\ \/ variant = "part_000" /\ viewport' # viewport
             \/ variant = "scripts" /\ timers.resize /\ ~ timers'.resize )
        => fitsContainer' ]_vars

\* C17: while a dataset is still being fetched nothing is placed and
\* nothing is drawn: no county path, no border mesh, no point, whatever
\* handler fires in the meantime.
C17_NothingDrawnBeforeLoaded ==
    pc \in { "awaitKenya", "awaitRecords" }
        => /\ pathsDrawn = NoProjection
           /\ circles = << >>
           /\ allMissingPersonsData = << >>

\* C18: once a fetch has failed the page shows the load error to the user,
\* and nothing derived from the dataset that did load is rendered: no
\* county path, no border mesh, no point and no filter control.
C18_LoadErrorSurfaced ==
    pc = "error"
        => /\ loading.display # "none"
           /\ loading.text = "error"
           /\ pathsDrawn = NoProjection
           /\ circles = << >>
           /\ ~ controls

\* updateDimensions runs for a resize of the container in this step: at
\* once in part_000, from the debounce timer in scripts.js
resizeHandled ==
    \/ variant = "part_000" /\ viewport' # viewport
    \/ variant = "scripts" /\ timers.resize /\ ~ timers'.resize

\* C19: a resize or a pan/zoom gesture supersedes the work in flight: after
\* it no transition of an earlier focus or unfocus is still running and no
\* delayed update of an earlier zoom-out is still pending, so nothing of
\* the earlier event can run after the later one.
C19_LaterEventSupersedes ==
    [][ ( \/ resizeHandled
          \/ \E scale \in WheelScales : zoomGesture(constrainScale(scale)) )
        => ~ transition'.active /\ timers'.zoomOut = 0 ]_vars

\* C20: the placed records are assigned once, in the step that ends the
\* loading; no later step (filter, focus, zoom-out, gesture, resize, timer)
\* changes the placement of a record or adds a record to the placed set or
\* removes one from it, and every circle is bound to a record of that set.
C20_PlacementAssignedOnce ==
    [][ /\ allMissingPersonsData' # allMissingPersonsData
            => pc = "awaitRecords" /\ pc' = "loaded"
        /\ \A i \in 1..Len(circles') :
               \E j \in 1..Len(allMissingPersonsData') :
                   circles'[i] = allMissingPersonsData'[j]
      ]_vars

\* scripts.js: a year filter hides a placed record and a county is focused,
\* and the placed set still holds every record with its position
C20_Witness ==
    /\ variant = "scripts"
    /\ pc = "loaded"
    /\ shown.year # All
    /\ isZoomedToCounty
    /\ Len(circles) < Len(allMissingPersonsData)
    /\ Len(allMissingPersonsData) = 3
    /\ \A i \in 1..Len(allMissingPersonsData) :
           allMissingPersonsData[i].position # Undefined

-----------------------------------------------------------------------------
(* The drawn state and the tracked state *)

\* C21: after every handler of part_000 the transform drawn on the map
\* group agrees with the tracked zoom state; in particular its scale is the
\* tracked scale k (the offset by the margins that the map group starts with
\* is not counted as a disagreement here).
C21_DrawnScaleIsTracked ==
    variant = "part_000" /\ pc = "loaded" => mapTransform.k = k

\* C22: once the transitions have settled, the county paths and the border
\* mesh are drawn under the current projection: nothing drawn keeps the
\* shape it had under an earlier projection.
C22_DrawnUnderCurrentProjection ==
    pathsDrawn # NoProjection /\ ~ transition.active => pathsDrawn = projection

\* twice the centre of the pixel bounding box of county d under projection
\* proj along axis a (1: x, 2: y), as a quotient of pixels
twiceBoxCentre(d, proj, a) ==
    LET perDegree == pixelsPerDegree(proj, countiesGeoJSON)
        fitted == UNION { countiesGeoJSON[i].ring : i \in 1..Len(countiesGeoJSON) }
        side == IF a = 1 THEN proj.w ELSE proj.h
        edges == SetMin({ point[a] : point \in d.ring })
                     + SetMax({ point[a] : point \in d.ring })
                     - 2 * SetMin({ point[a] : point \in fitted })
        whole == extentOf(WholeMap, countiesGeoJSON)[a]
    IN  << (edges - whole) * perDegree[1] + side * perDegree[2], perDegree[2] >>

\* transform t, fitted to county d, has the scale max(1, 0.9 * min(mapwidth
\* / w, mapHeight / h)) in tenths, rounded down: it is at least 1, above 1
\* the box of d scaled by it fits into nine tenths of the map area, and one
\* tenth more would not fit
scaleFitsBox(t, d) ==
    LET perDegree == pixelsPerDegree(t.proj, countiesGeoJSON)
        extent == extentOf(d.shapeName, countiesGeoJSON)
        fits(scale) == /\ scale * extent[1] * perDegree[1] <= 9 * t.w * perDegree[2]
                       /\ scale * extent[2] * perDegree[1] <= 9 * t.h * perDegree[2]
    IN  /\ t.k >= 10
        /\ t.k > 10 => fits(t.k)
        /\ ~ fits(t.k + 1)

\* transform t takes the centre of the pixel bounding box of county d to the
\* centre of the map area
centresBox(t, d) ==
    \A a \in { 1, 2 } :
        LET centre == twiceBoxCentre(d, t.proj, a)
            side == IF a = 1 THEN t.w ELSE t.h
        IN  t.k * centre[1] * t.translate[a][2]
                + 20 * centre[2] * t.translate[a][1]
              = 10 * side * centre[2] * t.translate[a][2]

\* C23: the transform that a region focus of part_000 starts a transition
\* to has the scale max(1, 0.9 * min(mapwidth / w, mapHeight / h)) for the
\* pixel bounding box of the region, never below 1, and its translate takes
\* the centre of that box to the centre of the map area.
C23_FitScaleAndCentre ==
    variant = "part_000" /\ transition.active /\ transition.zoom.kind = "fit"
        => /\ currentZoomedCounty = transition.zoom.on
           /\ scaleFitsBox(transition.zoom, findFeature(countiesGeoJSON, transition.zoom.on))
           /\ centresBox(transition.zoom, findFeature(countiesGeoJSON, transition.zoom.on))

\* a county is being focused at a scale above 1 that the floor does not
\* decide, with a projection that a resize has replaced
C23_Witness ==
    /\ variant = "part_000"
    /\ transition.active
    /\ transition.zoom.kind = "fit"
    /\ transition.zoom.k > 10
    /\ << transition.zoom.proj.w, transition.zoom.proj.h >>
           # << transition.zoom.w, transition.zoom.h >>

\* the r of the circles is min(max(4/k, 2), 10), inside [2, 10], and the
\* stroke-width of the border mesh is 1/k
radiusFollowsK ==
    /\ styles.r[2] > 0
    /\ \/ 40 * styles.r[2] <= 2 * k * styles.r[1] /\ styles.r = << 2, 1 >>
       \/ 40 * styles.r[2] >= 10 * k * styles.r[1] /\ styles.r = << 10, 1 >>
       \/ 40 * styles.r[2] = k * styles.r[1]
    /\ 2 * styles.r[2] <= styles.r[1]
    /\ styles.r[1] <= 10 * styles.r[2]
    /\ styles.stroke[2] > 0
    /\ k * styles.stroke[1] = 10 * styles.stroke[2]

\* C24: in part_000, once the page is loaded, the radius of the drawn points
\* is min(max(4/k, 2), 10) for the current k and the stroke width of the
\* border mesh is 1/k, so the radius lies between 2 and 10, and a step that
\* increases k does not increase the radius (k is in tenths, the radius and
\* the stroke width are quotients in lowest terms)
C24_RadiusAndStrokeFollowK ==
    /\ [](variant = "part_000" /\ pc = "loaded" => radiusFollowsK)
    /\ [][variant = "part_000" /\ pc = "loaded" /\ k' > k
             => styles'.r[1] * styles.r[2] <= styles.r[1] * styles'.r[2]]_vars

\* C24 witness: a zoom update has left a radius that is neither bound
C24_Witness ==
    /\ variant = "part_000"
    /\ pc = "loaded"
    /\ k > 10
    /\ mapTransform.k = k
    /\ styles.r[1] > 2 * styles.r[2]
    /\ styles.r[1] < 10 * styles.r[2]

\* the pixel interval of county d on axis a (1: x, 2: y) under projection
\* proj, in units of 1 / den of a pixel; the box of a projection made by
\* fitSize starts at the origin of the map area and the fit target is
\* centred in that box
pixelBox(d, proj, a) ==
    LET features == countiesGeoJSON
        perDegree == pixelsPerDegree(proj, features)
        fitted == IF proj.fit = WholeMap
                  THEN UNION { features[i].ring : i \in 1..Len(features) }
                  ELSE findFeature(features, proj.fit).ring
        side == IF a = 1 THEN proj.w ELSE proj.h
        origin == SetMin({ point[a] : point \in fitted })
        room == side * proj.pct * perDegree[2]
                    - 100 * extentOf(proj.fit, features)[a] * perDegree[1]
        at(x) == 200 * (x - origin) * perDegree[1] + room
    IN  [ lo |-> at(SetMin({ point[a] : point \in d.ring })),
          hi |-> at(SetMax({ point[a] : point \in d.ring })),
          den |-> 200 * perDegree[2] ]

\* the box of county d under proj lies inside a map area of the given size
insideMapArea(d, proj, size) ==
    \A a \in { 1, 2 } :
        /\ pixelBox(d, proj, a).lo >= 0
        /\ pixelBox(d, proj, a).hi <= size[a] * pixelBox(d, proj, a).den

\* the box of county d under proj takes pct hundredths of the map area on
\* one axis and no more on the other
fillsMapArea(d, proj, size, pct) ==
    /\ \A a \in { 1, 2 } :
           100 * (pixelBox(d, proj, a).hi - pixelBox(d, proj, a).lo)
               <= pct * size[a] * pixelBox(d, proj, a).den
    /\ \E a \in { 1, 2 } :
           100 * (pixelBox(d, proj, a).hi - pixelBox(d, proj, a).lo)
               = pct * size[a] * pixelBox(d, proj, a).den

\* the centre of the box of county d under proj is the centre of the map area
centredInMapArea(d, proj, size) ==
    \A a \in { 1, 2 } :
        pixelBox(d, proj, a).lo + pixelBox(d, proj, a).hi
            = size[a] * pixelBox(d, proj, a).den

\* scripts.js has just fitted the projection to the county it is zoomed to
focusedOn(d) ==
    /\ variant = "scripts"
    /\ isZoomedToCounty
    /\ projection.fit = d.shapeName
    /\ << projection.w, projection.h >> = mapSize

\* C25: after scripts.js has focused a county, the pixel bounding box of the
\* county under the new projection is centred in the map area, lies inside
\* it and fills 70% of it in the limiting dimension.
C25_FocusedRegionCentredInViewport ==
    \A i \in 1..Len(countiesGeoJSON) :
        focusedOn(countiesGeoJSON[i]) =>
            /\ insideMapArea(countiesGeoJSON[i], projection, mapSize)
            /\ fillsMapArea(countiesGeoJSON[i], projection, mapSize, CountyFit)
            /\ centredInMapArea(countiesGeoJSON[i], projection, mapSize)

\* C26: in scripts.js a click on the zoom-out control while a county is
\* focused makes the projection the whole-map fit, selects no county
\* (currentCounty = 'all') and ends the zoomed state, with which the control
\* is disabled; the click changes nothing while no county is focused; and
\* once zoomOut has set its timer the circles are eventually joined with the
\* records of all counties for the current year, unless a county has been
\* selected in the meantime.
C26_ZoomOutLeadsToOverview ==
    /\ [][variant = "scripts" /\ isZoomedToCounty /\ currentCounty' = All /\ zoomOutClick
             => /\ projection' = fitSize(mapSize, 100, WholeMap)
                /\ ~ isZoomedToCounty'
                /\ timers'.zoomOut = timers.zoomOut + 1]_vars
    /\ [][variant = "scripts" /\ isZoomedToCounty /\ currentCounty' # All
             => ~ zoomOutClick]_vars
    /\ [][variant = "scripts" /\ ~ isZoomedToCounty /\ zoomOutClick
             => UNCHANGED vars]_vars
    /\ (variant = "scripts" /\ timers.zoomOut > 0)
           ~> \/ /\ shown = filterOf(currentYear, All)
                 /\ circles = filterDataByYearAndCounty(allMissingPersonsData,
                                                        currentYear, All)
              \/ currentCounty # All

\* C26 witness: zoomOut has acted on a focused county and its timer has not
\* run yet: the circles are still those of the county
C26_Witness ==
    /\ variant = "scripts"
    /\ timers.zoomOut > 0
    /\ currentCounty = All
    /\ ~ isZoomedToCounty
    /\ projection = fitSize(mapSize, 100, WholeMap)
    /\ shown.county # All

\* the zoom state of part_000 is the identity: no transition is running and
\* the transform that an identity zoom or a gesture has left has scale 1 and
\* no translation
atIdentity ==
    /\ variant = "part_000"
    /\ pc = "loaded"
    /\ ~ transition.active
    /\ mapTransform.kind \in { "identity", "gesture" }
    /\ k = zoomIdentity.k
    /\ mapTransform.k = zoomIdentity.k
    /\ mapTransform.translate = zoomIdentity.translate

\* C27: in part_000 currentZoomedCounty is null whenever the zoom state is
\* the identity, whatever clicks and gestures came before, so that a click
\* on a county at the identity always focuses it.
C27_NoFocusAtIdentity == atIdentity => currentZoomedCounty = Null

\* C28: in scripts.js, whenever the view is marked as zoomed to a county,
\* currentCounty names a county and the projection is fitted to the boundary
\* feature of that county; a selected county without boundary feature is
\* never marked as zoomed while the projection is fitted to another county.
C28_ZoomedMeansFittedToCurrentCounty ==
    variant = "scripts" /\ isZoomedToCounty =>
        /\ currentCounty # All
        /\ toLowerCase(projection.fit) = toLowerCase(currentCounty)

\* the number of circles on the map
drawnPoints == Len(circles)

\* C29: once the page of part_000 is loaded, and after every filter action,
\* the visible-case count on display is the number of records drawn as
\* points and is at most the total-case count on display.
C29_VisibleCountIsDrawnCount ==
    variant = "part_000" /\ pc = "loaded" =>
        /\ statistics.visibleCases = << drawnPoints >>
        /\ statistics.visibleCases[1] <= statistics.totalCases[1]
=============================================================================
